---- MODULE Spec2Model ----
(***************************************************************************)
(* The CD-ROM drive controller of src/src/core/cdrom.cpp as a state        *)
(* machine.  The controller's members are the variables; every public      *)
(* entry point (ReadRegister, WriteRegister, DMARead, Execute, InsertMedia,*)
(* RemoveMedia) is one action.  The private methods are operators from a   *)
(* controller record to a controller record, composed as the code calls    *)
(* them.                                                                   *)
(***************************************************************************)
EXTENDS Integers, Sequences, FiniteSets, TLC

VARIABLES
  command_state,                \* m_command_state
  command,                      \* m_command (opcode)
  command_stage,                \* m_command_stage
  command_remaining_ticks,      \* m_command_remaining_ticks
  read_or_seek_remaining_ticks, \* m_read_or_seek_remaining_ticks
  status,                       \* m_status.bits
  secondary_status,             \* m_secondary_status.bits
  mode,                         \* m_mode.bits
  interrupt_enable_register,    \* m_interrupt_enable_register
  interrupt_flag_register,      \* m_interrupt_flag_register
  pending_async_interrupt,      \* m_pending_async_interrupt
  setloc_position,              \* m_setloc_position (minute, second, frame)
  seek_position,                \* m_seek_position
  setloc_pending,               \* m_setloc_pending
  read_after_seek,              \* m_read_after_seek
  play_after_seek,              \* m_play_after_seek
  muted,                        \* m_muted
  adpcm_muted,                  \* m_adpcm_muted
  filter_file_number,           \* m_filter_file_number
  filter_channel_number,        \* m_filter_channel_number
  last_sector_header,           \* m_last_sector_header
  last_sector_subheader,        \* m_last_sector_subheader
  cd_audio_volume_matrix,       \* m_cd_audio_volume_matrix
  next_cd_audio_volume_matrix,  \* m_next_cd_audio_volume_matrix
  param_fifo,                   \* m_param_fifo
  response_fifo,                \* m_response_fifo
  async_response_fifo,          \* m_async_response_fifo
  data_fifo,                    \* m_data_fifo, as runs of sector bytes
  sector_buffer,                \* m_sector_buffer, <<>> or <<sector>>
  has_media,                    \* m_media != nullptr
  media_lba,                    \* m_media->GetPositionOnDisc()
  dma_request,                  \* level last given to DMA::SetRequest(CDROM, .)
  dma_words,                    \* the buffer DMARead filled in the last operation
  panic,                        \* the Assert/Panic that ended the program, or NoPanic
  latched,                      \* interrupt codes latched by the last operation, in order
  irq_requests,                 \* InterruptRequest(CDROM) calls of the last operation
  async_requested,              \* codes given to SetAsyncInterrupt by the last operation
  sector_reads,                 \* CDImage::Read calls of the last operation
  xa_resample_p,                \* m_xa_resample_p
  xa_resample_sixstep,          \* m_xa_resample_sixstep
  xa_last_samples,              \* m_xa_last_samples, as the sector decoded last
  saved_state,                  \* the save state DoState wrote last, <<>> if none
  spu_ensure,                   \* EnsureCDAudioSpace(n) calls of the last operation
  spu_samples,                  \* AddCDAudioSample calls of the last operation
  audio_in,                     \* the sample pair the volume matrix is applied to
  audio_out                     \* the pair given to AddCDAudioSample for it, <<>> if none

vars == <<command_state, command, command_stage, command_remaining_ticks,
          read_or_seek_remaining_ticks, status, secondary_status, mode,
          interrupt_enable_register, interrupt_flag_register,
          pending_async_interrupt, setloc_position, seek_position,
          setloc_pending, read_after_seek, play_after_seek, muted, adpcm_muted,
          filter_file_number, filter_channel_number, last_sector_header,
          last_sector_subheader, cd_audio_volume_matrix,
          next_cd_audio_volume_matrix, param_fifo, response_fifo,
          async_response_fifo, data_fifo, sector_buffer, has_media, media_lba,
          dma_request, dma_words, panic, latched, irq_requests, async_requested,
          sector_reads, xa_resample_p, xa_resample_sixstep, xa_last_samples,
          saved_state, spu_ensure, spu_samples, audio_in, audio_out>>

-----------------------------------------------------------------------------
(* Bytes and bit fields.                                                   *)

Pow2(n) == 2 ^ n

\* bit n of byte b
Bit(b, n) == (b \div Pow2(n)) % 2 = 1

\* byte b with bit n set to the boolean v
WithBit(b, n, v) ==
  b - (IF Bit(b, n) THEN Pow2(n) ELSE 0) + (IF v THEN Pow2(n) ELSE 0)

\* a & m on bytes
BitAnd(a, m) ==
  LET F[i \in 0..8] ==
        IF i = 8 THEN 0
        ELSE (IF Bit(a, i) /\ Bit(m, i) THEN Pow2(i) ELSE 0) + F[i + 1]
  IN F[0]

\* a | m on bytes
BitOr(a, m) == a + m - BitAnd(a, m)

\* a & ~m on bytes
BitClear(a, m) == a - BitAnd(a, m)

Min(a, b) == IF a < b THEN a ELSE b

-----------------------------------------------------------------------------------------------------------------------------------------------------
(* Constants of cdrom.h and cd_image.h.                                    *)

INTERRUPT_REGISTER_MASK == 31
MASTER_CLOCK == 33868800
RAW_SECTOR_SIZE == 2352
DATA_SECTOR_SIZE == 2048
SECTOR_SYNC_SIZE == 12
PARAM_FIFO_SIZE == 16
DATA_FIFO_SIZE == 2340
FRAMES_PER_SECOND == 75
FRAMES_PER_MINUTE == 4500

\* enum class Interrupt
Interrupt == [INT1 |-> 1, INT2 |-> 2, ACK |-> 3, INT5 |-> 5]

\* enum class Command: the opcodes ExecuteCommand dispatches on
Command ==
  [Sync |-> 0, Getstat |-> 1, Setloc |-> 2, Play |-> 3, ReadN |-> 6,
   Pause |-> 9, Init |-> 10, Mute |-> 11, Demute |-> 12, Setfilter |-> 13,
   Setmode |-> 14, GetlocL |-> 16, GetlocP |-> 17, GetTN |-> 19, GetTD |-> 20,
   SeekL |-> 21, SeekP |-> 22, Test |-> 25, GetID |-> 26, ReadS |-> 27]

\* enum class CommandState
CommandState ==
  [Idle |-> "Idle", WaitForExecute |-> "WaitForExecute",
   WaitForIRQClear |-> "WaitForIRQClear"]

\* bit numbers of the m_status bit field
StatusBit ==
  [ADPBUSY |-> 2, PRMEMPTY |-> 3, PRMWRDY |-> 4, RSLRRDY |-> 5, DRQSTS |-> 6,
   BUSYSTS |-> 7]

\* bit numbers of the m_secondary_status bit field
SecondaryBit == [motor_on |-> 1, reading |-> 5, seeking |-> 6, playing_cdda |-> 7]

\* bit numbers of the m_mode bit field
ModeBit ==
  [report_audio |-> 2, xa_filter |-> 3, ignore_bit |-> 4, read_raw_sector |-> 5,
   xa_enable |-> 6, double_speed |-> 7]

\* bit numbers of RequestRegister
RequestBit == [SMEN |-> 5, BFRD |-> 7]

\* bit numbers of the sector subheader's submode
SubmodeBit == [audio |-> 2, realtime |-> 6, eof |-> 7]

NoPanic == "none"

-----------------------------------------------------------------------------
(* The controller as one record, for the operators below.                  *)

Cur ==
  [command_state |-> command_state, command |-> command,
   command_stage |-> command_stage,
   command_remaining_ticks |-> command_remaining_ticks,
   read_or_seek_remaining_ticks |-> read_or_seek_remaining_ticks,
   status |-> status, secondary_status |-> secondary_status, mode |-> mode,
   interrupt_enable_register |-> interrupt_enable_register,
   interrupt_flag_register |-> interrupt_flag_register,
   pending_async_interrupt |-> pending_async_interrupt,
   setloc_position |-> setloc_position, seek_position |-> seek_position,
   setloc_pending |-> setloc_pending, read_after_seek |-> read_after_seek,
   play_after_seek |-> play_after_seek, muted |-> muted,
   adpcm_muted |-> adpcm_muted, filter_file_number |-> filter_file_number,
   filter_channel_number |-> filter_channel_number,
   last_sector_header |-> last_sector_header,
   last_sector_subheader |-> last_sector_subheader,
   cd_audio_volume_matrix |-> cd_audio_volume_matrix,
   next_cd_audio_volume_matrix |-> next_cd_audio_volume_matrix,
   param_fifo |-> param_fifo, response_fifo |-> response_fifo,
   async_response_fifo |-> async_response_fifo, data_fifo |-> data_fifo,
   sector_buffer |-> sector_buffer, has_media |-> has_media,
   media_lba |-> media_lba, dma_request |-> dma_request,
   dma_words |-> dma_words, panic |-> panic,
   latched |-> latched, irq_requests |-> irq_requests,
   async_requested |-> async_requested, sector_reads |-> sector_reads,
   xa_resample_p |-> xa_resample_p,
   xa_resample_sixstep |-> xa_resample_sixstep,
   xa_last_samples |-> xa_last_samples, saved_state |-> saved_state,
   spu_ensure |-> spu_ensure, spu_samples |-> spu_samples]

\* the controller at the entry of an operation: the per-operation logs are empty
Enter ==
  [Cur EXCEPT !.latched = <<>>, !.irq_requests = 0, !.async_requested = <<>>,
              !.dma_words = <<>>,
              !.sector_reads = 0, !.spu_ensure = <<>>, !.spu_samples = 0]

\* the variables become the record s
CommitController(s) ==
  /\ command_state' = s.command_state
  /\ command' = s.command
  /\ command_stage' = s.command_stage
  /\ command_remaining_ticks' = s.command_remaining_ticks
  /\ read_or_seek_remaining_ticks' = s.read_or_seek_remaining_ticks
  /\ status' = s.status
  /\ secondary_status' = s.secondary_status
  /\ mode' = s.mode
  /\ interrupt_enable_register' = s.interrupt_enable_register
  /\ interrupt_flag_register' = s.interrupt_flag_register
  /\ pending_async_interrupt' = s.pending_async_interrupt
  /\ setloc_position' = s.setloc_position
  /\ seek_position' = s.seek_position
  /\ setloc_pending' = s.setloc_pending
  /\ read_after_seek' = s.read_after_seek
  /\ play_after_seek' = s.play_after_seek
  /\ muted' = s.muted
  /\ adpcm_muted' = s.adpcm_muted
  /\ filter_file_number' = s.filter_file_number
  /\ filter_channel_number' = s.filter_channel_number
  /\ last_sector_header' = s.last_sector_header
  /\ last_sector_subheader' = s.last_sector_subheader
  /\ cd_audio_volume_matrix' = s.cd_audio_volume_matrix
  /\ next_cd_audio_volume_matrix' = s.next_cd_audio_volume_matrix
  /\ param_fifo' = s.param_fifo
  /\ response_fifo' = s.response_fifo
  /\ async_response_fifo' = s.async_response_fifo
  /\ data_fifo' = s.data_fifo
  /\ sector_buffer' = s.sector_buffer
  /\ has_media' = s.has_media
  /\ media_lba' = s.media_lba
  /\ dma_request' = s.dma_request
  /\ dma_words' = s.dma_words
  /\ panic' = s.panic
  /\ latched' = s.latched
  /\ irq_requests' = s.irq_requests
  /\ async_requested' = s.async_requested
  /\ sector_reads' = s.sector_reads
  /\ xa_resample_p' = s.xa_resample_p
  /\ xa_resample_sixstep' = s.xa_resample_sixstep
  /\ xa_last_samples' = s.xa_last_samples
  /\ saved_state' = s.saved_state
  /\ spu_ensure' = s.spu_ensure
  /\ spu_samples' = s.spu_samples

\* an operation of the controller: the mixer's sample pair is left alone
Commit(s) ==
  /\ CommitController(s)
  /\ UNCHANGED <<audio_in, audio_out>>

\* Assert(cond) / Panic(): the program ends at the first one that fails, so
\* every operator below leaves a panicked controller as it is
Fail(s, what) == IF s.panic = NoPanic THEN [s EXCEPT !.panic = what] ELSE s

-----------------------------------------------------------------------------
(* Accessors of cdrom.h.                                                   *)

\* m_secondary_status.IsActive()
IsActive(s) ==
  \/ Bit(s.secondary_status, SecondaryBit.seeking)
  \/ Bit(s.secondary_status, SecondaryBit.reading)
  \/ Bit(s.secondary_status, SecondaryBit.playing_cdda)

\* m_secondary_status.IsReadingOrPlaying()
IsReadingOrPlaying(s) ==
  \/ Bit(s.secondary_status, SecondaryBit.reading)
  \/ Bit(s.secondary_status, SecondaryBit.playing_cdda)

HasPendingInterrupt(s) == s.interrupt_flag_register # 0

HasPendingAsyncInterrupt(s) == s.pending_async_interrupt # 0

\* number of bytes in the data FIFO (a sequence of runs of sector bytes)
DataFifoSize(f) ==
  LET F[i \in 0..Len(f)] == IF i = 0 THEN 0 ELSE f[i].len + F[i - 1]
  IN F[Len(f)]

\* m_data_fifo with its first n bytes popped (n <= size)
RECURSIVE DataFifoPop(_, _)
DataFifoPop(f, n) ==
  IF n = 0 \/ f = <<>> THEN f
  ELSE IF Head(f).len <= n THEN DataFifoPop(Tail(f), n - Head(f).len)
  ELSE <<[Head(f) EXCEPT !.from = @ + n, !.len = @ - n]>> \o Tail(f)

\* the first n bytes of m_data_fifo (n <= size), as runs
RECURSIVE DataFifoTake(_, _)
DataFifoTake(f, n) ==
  IF n = 0 \/ f = <<>> THEN <<>>
  ELSE IF Head(f).len <= n
    THEN <<Head(f)>> \o DataFifoTake(Tail(f), n - Head(f).len)
  ELSE <<[Head(f) EXCEPT !.len = n]>>

\* runs of a buffer that hold no sector bytes: bytes memset to zero, and bytes
\* of the caller's buffer nothing was written to
ZeroBytes == 0 - 1
UnwrittenBytes == 0 - 2

\* a run of n such bytes, no run when n <= 0
FillRun(kind, n) ==
  IF n <= 0 THEN <<>> ELSE <<[lba |-> kind, from |-> 0, len |-> n]>>

-----------------------------------------------------------------------------
(* The disc image behind m_media (common/cd_image.h).                      *)

\* sectors on the inserted disc
DiscLBACount == 3

\* tracks on the inserted disc
DiscTrackCount == 2

\* CDImage::Position::ToLBA
ToLBA(pos) ==
  pos.minute * FRAMES_PER_MINUTE + pos.second * FRAMES_PER_SECOND + pos.frame

\* CDImage::Position::FromLBA
FromLBA(lba) ==
  [minute |-> lba \div FRAMES_PER_MINUTE,
   second |-> (lba % FRAMES_PER_MINUTE) \div FRAMES_PER_SECOND,
   frame |-> lba % FRAMES_PER_SECOND]

BCDToDecimal(v) == (v \div 16) * 10 + (v % 16)

DecimalToBCD(v) == ((v \div 10) % 16) * 16 + (v % 10)

\* CDImage::Seek: a position on the disc can be sought, any other cannot
MediaCanSeek(lba) == lba < DiscLBACount

\* CDImage::GetTrackStartPosition: the tracks split the disc evenly
TrackStartLBA(track) == ((track - 1) * DiscLBACount) \div DiscTrackCount

\* CDImage::GetTrackNumber
RECURSIVE TrackNumberAt(_, _)
TrackNumberAt(lba, track) ==
  IF track > 1 /\ TrackStartLBA(track) > lba THEN TrackNumberAt(lba, track - 1)
  ELSE track

\* the raw sector at lba: header, subheader, and the bytes named by (lba, offset).
\* Odd sectors are real-time XA audio of file 1 channel 0, even ones are data.
DiscSector(lba) ==
  [lba |-> lba,
   header |-> [minute |-> DecimalToBCD(FromLBA(lba).minute),
               second |-> DecimalToBCD(FromLBA(lba).second),
               frame |-> DecimalToBCD(FromLBA(lba).frame),
               sector_mode |-> 2],
   subheader |-> [file_number |-> lba % 2, channel_number |-> 0,
                  submode |-> IF lba % 2 = 1 THEN 68 ELSE 8,
                  codinginfo |-> 1]]

-----------------------------------------------------------------------------
(* Status byte and interrupts.                                             *)

\* a variant that recomputes the bits and leaves the DMA request line alone
UpdateStatusRegister_NoSetRequest(s) ==
  IF s.panic # NoPanic THEN s
  ELSE
    LET b1 == WithBit(s.status, StatusBit.ADPBUSY, FALSE)
        b2 == WithBit(b1, StatusBit.PRMEMPTY, s.param_fifo = <<>>)
        b3 == WithBit(b2, StatusBit.PRMWRDY, Len(s.param_fifo) < PARAM_FIFO_SIZE)
        b4 == WithBit(b3, StatusBit.RSLRRDY, s.response_fifo # <<>>)
        b5 == WithBit(b4, StatusBit.DRQSTS, s.data_fifo # <<>>)
        b6 == WithBit(b5, StatusBit.BUSYSTS,
                      s.command_state = CommandState.WaitForExecute)
    IN [s EXCEPT !.status = b6]

UpdateStatusRegister(s) ==
  IF s.panic # NoPanic THEN s
  ELSE
    LET b1 == WithBit(s.status, StatusBit.ADPBUSY, FALSE)
        b2 == WithBit(b1, StatusBit.PRMEMPTY, s.param_fifo = <<>>)
        b3 == WithBit(b2, StatusBit.PRMWRDY, Len(s.param_fifo) < PARAM_FIFO_SIZE)
        b4 == WithBit(b3, StatusBit.RSLRRDY, s.response_fifo # <<>>)
        b5 == WithBit(b4, StatusBit.DRQSTS, s.data_fifo # <<>>)
        b6 == WithBit(b5, StatusBit.BUSYSTS,
                      s.command_state = CommandState.WaitForExecute)
    IN [s EXCEPT !.status = b6, !.dma_request = Bit(b6, StatusBit.DRQSTS)]

SetInterrupt(s, interrupt) ==
  IF s.panic # NoPanic THEN s
  ELSE [s EXCEPT !.interrupt_flag_register = interrupt,
                 !.latched = Append(@, interrupt),
                 !.irq_requests = IF interrupt # 0 THEN @ + 1 ELSE @]

\* a variant that does not clear the response FIFO first
DeliverAsyncInterrupt_KeepResponse(s) ==
  IF s.panic # NoPanic THEN s
  ELSE IF ~(s.pending_async_interrupt # 0 /\ ~HasPendingInterrupt(s))
    THEN Fail(s, "Assert DeliverAsyncInterrupt")
  ELSE [s EXCEPT !.response_fifo = @ \o s.async_response_fifo,
                 !.async_response_fifo = <<>>,
                 !.interrupt_flag_register = s.pending_async_interrupt,
                 !.pending_async_interrupt = 0,
                 !.latched = Append(@, s.pending_async_interrupt),
                 !.irq_requests = @ + 1]

DeliverAsyncInterrupt(s) ==
  IF s.panic # NoPanic THEN s
  ELSE IF ~(s.pending_async_interrupt # 0 /\ ~HasPendingInterrupt(s))
    THEN Fail(s, "Assert DeliverAsyncInterrupt")
  ELSE [s EXCEPT !.response_fifo = s.async_response_fifo,
                 !.async_response_fifo = <<>>,
                 !.interrupt_flag_register = s.pending_async_interrupt,
                 !.pending_async_interrupt = 0,
                 !.latched = Append(@, s.pending_async_interrupt),
                 !.irq_requests = @ + 1]

\* a variant that delivers at once, whatever the flag register holds
SetAsyncInterrupt_AlwaysDeliver(s, interrupt) ==
  IF s.panic # NoPanic THEN s
  ELSE IF s.pending_async_interrupt # 0 THEN Fail(s, "Assert SetAsyncInterrupt")
  ELSE DeliverAsyncInterrupt(
         [s EXCEPT !.pending_async_interrupt = interrupt,
                   !.async_requested = Append(@, interrupt)])

SetAsyncInterrupt(s, interrupt) ==
  IF s.panic # NoPanic THEN s
  ELSE IF s.pending_async_interrupt # 0 THEN Fail(s, "Assert SetAsyncInterrupt")
  ELSE
    LET s1 == [s EXCEPT !.pending_async_interrupt = interrupt,
                        !.async_requested = Append(@, interrupt)]
    IN IF ~HasPendingInterrupt(s1) THEN DeliverAsyncInterrupt(s1) ELSE s1

CancelAsyncInterrupt(s) ==
  IF s.panic # NoPanic THEN s
  ELSE [s EXCEPT !.pending_async_interrupt = 0, !.async_response_fifo = <<>>]

SendACKAndStat(s) ==
  IF s.panic # NoPanic THEN s
  ELSE SetInterrupt([s EXCEPT !.response_fifo = Append(@, s.secondary_status)],
                    Interrupt.ACK)

SendErrorResponse(s, reason) ==
  IF s.panic # NoPanic THEN s
  ELSE SetInterrupt(
         [s EXCEPT !.response_fifo =
            @ \o <<BitOr(s.secondary_status, 1), reason>>],
         Interrupt.INT5)

SendAsyncErrorResponse(s, reason) ==
  IF s.panic # NoPanic THEN s
  ELSE SetAsyncInterrupt(
         [s EXCEPT !.async_response_fifo =
            @ \o <<BitOr(s.secondary_status, 1), reason>>],
         Interrupt.INT5)

-----------------------------------------------------------------------------
(* Delays.                                                                 *)

\* a variant with one delay for every command
GetAckDelayForCommand_Flat(s) == 4000

GetAckDelayForCommand(s) == IF s.command = Command.Init THEN 60000 ELSE 4000

\* a variant that reads at single speed whatever the mode says
GetTicksForRead_SingleSpeed(s) == MASTER_CLOCK \div 75

GetTicksForRead(s) ==
  IF Bit(s.mode, ModeBit.double_speed) THEN MASTER_CLOCK \div 150
  ELSE MASTER_CLOCK \div 75

GetTicksForSeek(s) ==
  LET current_lba == s.media_lba
      new_lba == ToLBA(s.setloc_position)
      lba_diff == IF new_lba > current_lba THEN new_lba - current_lba
                  ELSE current_lba - new_lba
  IN 20000 + lba_diff * 100

-----------------------------------------------------------------------------
(* The drive: seeking, reading, playing.                                   *)

StopReading(s) ==
  IF s.panic # NoPanic THEN s
  ELSE IF ~IsActive(s) THEN s
  ELSE
    LET b1 == WithBit(s.secondary_status, SecondaryBit.reading, FALSE)
        b2 == WithBit(b1, SecondaryBit.playing_cdda, FALSE)
        b3 == WithBit(b2, SecondaryBit.seeking, FALSE)
    IN [s EXCEPT !.secondary_status = b3, !.read_or_seek_remaining_ticks = 0]

BeginSeeking(s) ==
  IF s.panic # NoPanic THEN s
  ELSE
    LET s1 == [s EXCEPT !.seek_position = s.setloc_position,
                        !.setloc_pending = FALSE]
    IN IF IsReadingOrPlaying(s1) THEN Fail(s1, "Assert BeginSeeking")
       ELSE
         LET b1 == WithBit(s1.secondary_status, SecondaryBit.motor_on, TRUE)
             b2 == WithBit(b1, SecondaryBit.seeking, TRUE)
         IN [s1 EXCEPT !.secondary_status = b2,
                       !.read_or_seek_remaining_ticks = GetTicksForSeek(s1)]

BeginReading(s, cdda) ==
  IF s.panic # NoPanic THEN s
  ELSE IF s.setloc_pending /\ FromLBA(s.media_lba) # s.setloc_position
    THEN LET s1 == BeginSeeking(s)
         IN IF s1.panic # NoPanic THEN s1
            ELSE [s1 EXCEPT !.read_after_seek = ~cdda, !.play_after_seek = cdda]
  ELSE
    LET b1 == WithBit(s.secondary_status, SecondaryBit.motor_on, TRUE)
        b2 == WithBit(b1, SecondaryBit.seeking, FALSE)
        b3 == WithBit(b2, SecondaryBit.reading, ~cdda)
        b4 == WithBit(b3, SecondaryBit.playing_cdda, cdda)
    IN [s EXCEPT !.setloc_pending = FALSE,
                 !.secondary_status = b4,
                 !.read_or_seek_remaining_ticks = GetTicksForRead(s)]

\* the tail of DoSeekComplete: the flags every seek completion clears
DoSeekComplete_Finish(s) ==
  IF s.panic # NoPanic THEN s
  ELSE [s EXCEPT !.setloc_pending = FALSE, !.read_after_seek = FALSE,
                 !.play_after_seek = FALSE]

\* the branch of DoSeekComplete taken when the image seek succeeded
DoSeekComplete_Succeeded(s) ==
  IF s.panic # NoPanic THEN s
  ELSE UpdateStatusRegister(
         SetAsyncInterrupt(
           [s EXCEPT !.async_response_fifo = Append(@, s.secondary_status)],
           Interrupt.INT2))

DoSeekComplete_Seek(s) ==
  IF s.has_media /\ MediaCanSeek(ToLBA(s.seek_position))
  THEN DoSeekComplete_Succeeded(
         IF s.play_after_seek \/ s.read_after_seek
         THEN BeginReading([s EXCEPT !.media_lba = ToLBA(s.seek_position)],
                           s.play_after_seek)
         ELSE [s EXCEPT !.media_lba = ToLBA(s.seek_position)])
  ELSE SendAsyncErrorResponse(s, 128)

DoSeekComplete(s) ==
  IF s.panic # NoPanic THEN s
  ELSE IF ~Bit(s.secondary_status, SecondaryBit.seeking)
    THEN Fail(s, "Assert DoSeekComplete")
  ELSE DoSeekComplete_Finish(
         DoSeekComplete_Seek(
           [s EXCEPT !.secondary_status =
                       WithBit(@, SecondaryBit.seeking, FALSE)]))

\* samples per channel the resampler is fed for the sector in the buffer
XASamplesIn(s) ==
  LET ci == s.last_sector_subheader.codinginfo
      per_sector == IF Bit(ci, 4) THEN 2016 ELSE 4032
  IN IF Bit(ci, 0) THEN per_sector \div 2 ELSE per_sector

\* ResampleXAADPCM: every sixth ring-buffer write emits 7 samples to the mixer
ResampleXAADPCM(s, num_samples_in) ==
  LET dup == IF Bit(s.last_sector_subheader.codinginfo, 2) THEN 2 ELSE 1
      n == num_samples_in * dup
      six == s.xa_resample_sixstep
      hits == IF n < six THEN 0 ELSE 1 + ((n - six) \div 6)
  IN [s EXCEPT !.xa_resample_p = (@ + n) % 32,
               !.xa_resample_sixstep =
                  IF n < six THEN six - n ELSE 6 - ((n - six) % 6),
               !.spu_samples = @ + 7 * hits]

\* CDXA::DecodeADPCMSector: the filter history the decoder leaves behind is that
\* of the sector it decoded; <<>> is the all-zero history
DecodeADPCMSector(s) == [s EXCEPT !.xa_last_samples = <<s.sector_buffer[1].lba>>]

\* ProcessXAADPCMSector once the sector is decoded
ProcessXAADPCMSector_Push(s) ==
  IF s.muted \/ s.adpcm_muted THEN s
  ELSE ResampleXAADPCM([s EXCEPT !.spu_ensure = Append(@, XASamplesIn(s))],
                       XASamplesIn(s))

ProcessXAADPCMSector(s) ==
  IF s.panic # NoPanic THEN s
  ELSE ProcessXAADPCMSector_Push(DecodeADPCMSector(s))

\* a variant without the file and channel filter
ProcessDataSector_NoFilter(s) ==
  IF s.panic # NoPanic THEN s
  ELSE
    LET sec == s.sector_buffer[1]
        s1 == [s EXCEPT !.last_sector_header = sec.header,
                        !.last_sector_subheader = sec.subheader]
        audio == /\ Bit(s1.mode, ModeBit.xa_enable)
                 /\ s1.last_sector_header.sector_mode = 2
                 /\ Bit(s1.last_sector_subheader.submode, SubmodeBit.realtime)
                 /\ Bit(s1.last_sector_subheader.submode, SubmodeBit.audio)
    IN IF audio
       THEN [ProcessXAADPCMSector(s1) EXCEPT !.sector_buffer = <<>>]
       ELSE UpdateStatusRegister(
              SetAsyncInterrupt(
                [s1 EXCEPT !.async_response_fifo =
                             Append(@, s1.secondary_status)],
                Interrupt.INT1))

ProcessDataSector(s) ==
  IF s.panic # NoPanic THEN s
  ELSE
    LET sec == s.sector_buffer[1]
        s1 == [s EXCEPT !.last_sector_header = sec.header,
                        !.last_sector_subheader = sec.subheader]
        audio == /\ Bit(s1.mode, ModeBit.xa_enable)
                 /\ s1.last_sector_header.sector_mode = 2
                 /\ Bit(s1.last_sector_subheader.submode, SubmodeBit.realtime)
                 /\ Bit(s1.last_sector_subheader.submode, SubmodeBit.audio)
        mismatch == /\ Bit(s1.mode, ModeBit.xa_filter)
                    /\ \/ s1.last_sector_subheader.file_number
                            # s1.filter_file_number
                       \/ s1.last_sector_subheader.channel_number
                            # s1.filter_channel_number
        s2 == IF mismatch THEN s1 ELSE ProcessXAADPCMSector(s1)
    IN IF audio THEN [s2 EXCEPT !.sector_buffer = <<>>]
       ELSE UpdateStatusRegister(
              SetAsyncInterrupt(
                [s1 EXCEPT !.async_response_fifo =
                             Append(@, s1.secondary_status)],
                Interrupt.INT1))

ProcessCDDASector(s) ==
  IF s.panic # NoPanic THEN s
  ELSE
    LET num_samples == (RAW_SECTOR_SIZE \div 2) \div 2
        s1 == IF ~s.muted
              THEN [s EXCEPT !.spu_ensure = Append(@, num_samples),
                             !.spu_samples = @ + num_samples]
              ELSE s
    IN [s1 EXCEPT !.sector_buffer = <<>>]

\* the sector buffer after resize(RAW_SECTOR_SIZE) when nothing is read into it
ZeroSector ==
  [lba |-> 0,
   header |-> [minute |-> 0, second |-> 0, frame |-> 0, sector_mode |-> 0],
   subheader |-> [file_number |-> 0, channel_number |-> 0, submode |-> 0,
                  codinginfo |-> 0]]

\* the tail of DoSectorRead: the next sector is scheduled
DoSectorRead_Schedule(s) ==
  IF s.panic # NoPanic THEN s
  ELSE [s EXCEPT !.read_or_seek_remaining_ticks = @ + GetTicksForRead(s)]

DoSectorRead_Process(s) ==
  IF Bit(s.secondary_status, SecondaryBit.reading)
    THEN ProcessDataSector(s)
  ELSE IF Bit(s.secondary_status, SecondaryBit.playing_cdda)
    THEN ProcessCDDASector(s)
  ELSE Fail(s, "Panic Not reading or playing")

\* m_media->Read of one raw sector into the sector buffer
DoSectorRead_Read(s) ==
  IF s.has_media /\ s.media_lba < DiscLBACount
  THEN [s EXCEPT !.sector_buffer = <<DiscSector(s.media_lba)>>,
                 !.media_lba = @ + 1,
                 !.sector_reads = @ + 1]
  ELSE [s EXCEPT !.sector_buffer = IF @ = <<>> THEN <<ZeroSector>> ELSE @,
                 !.sector_reads = @ + 1]

\* DoSectorRead once a held async interrupt is cancelled
DoSectorRead_Body(s, ub) ==
  IF Bit(s.mode, ModeBit.ignore_bit) THEN Fail(s, "Assert DoSectorRead")
  ELSE IF ~s.has_media /\ ub = "crash"
    THEN Fail([s EXCEPT !.sector_reads = @ + 1], "null m_media")
  ELSE DoSectorRead_Schedule(DoSectorRead_Process(DoSectorRead_Read(s)))

\* ub: what the build does on m_media->Read through a null m_media
DoSectorRead(s, ub) ==
  IF s.panic # NoPanic THEN s
  ELSE DoSectorRead_Body(
         IF HasPendingAsyncInterrupt(s) THEN CancelAsyncInterrupt(s) ELSE s, ub)

-----------------------------------------------------------------------------
(* Command sequencing.                                                     *)

\* FIFOQueue::Peek(i): a slot past the end still holds an older byte, stale
Peek(f, i, stale) == IF i < Len(f) THEN f[i + 1] ELSE stale

EndCommand(s) ==
  IF s.panic # NoPanic THEN s
  ELSE UpdateStatusRegister(
         [s EXCEPT !.param_fifo = <<>>,
                   !.command_state = CommandState.Idle,
                   !.command = Command.Sync,
                   !.command_stage = 0,
                   !.command_remaining_ticks = 0])

RECURSIVE Execute(_, _, _)

\* System::Synchronize: the ticks the CPU has run since the last Execute
\* (e.pending) are flushed through Execute
Synchronize(s, e) ==
  IF s.panic # NoPanic \/ e.pending = 0 THEN s ELSE Execute(s, e.pending, e)

\* the tail of NextCommandStage, after System::Synchronize
NextCommandStage_Resume(s) ==
  IF s.panic # NoPanic THEN s
  ELSE UpdateStatusRegister(
         [s EXCEPT !.command_state = CommandState.WaitForExecute])

NextCommandStage_Wait(s, wait_for_irq, e) ==
  IF wait_for_irq THEN s ELSE NextCommandStage_Resume(Synchronize(s, e))

NextCommandStage(s, wait_for_irq, time, e) ==
  IF s.panic # NoPanic THEN s
  ELSE NextCommandStage_Wait(
         UpdateStatusRegister(
           [s EXCEPT !.command_state = CommandState.WaitForIRQClear,
                     !.command_remaining_ticks = time,
                     !.command_stage = @ + 1]),
         wait_for_irq, e)

ExecuteTestCommand(s, subcommand) ==
  IF s.panic # NoPanic THEN s
  ELSE IF subcommand = 32
    THEN EndCommand(SetInterrupt(
           [s EXCEPT !.response_fifo = @ \o <<148, 9, 25, 192>>], Interrupt.ACK))
  ELSE IF subcommand = 34
    THEN EndCommand(SetInterrupt(
           [s EXCEPT !.response_fifo = @ \o <<102, 111, 114, 32, 85, 47, 67>>],
           Interrupt.ACK))
  ELSE s

\* the cases of ExecuteCommand, one operator per group of opcodes
ExecuteGetID(s, e) ==
  IF s.command_stage = 0
  THEN IF ~s.has_media
       THEN EndCommand(SetInterrupt(
              [s EXCEPT !.response_fifo = @ \o <<17, 128>>], Interrupt.INT5))
       ELSE NextCommandStage(SendACKAndStat(s), TRUE, 18000, e)
  ELSE EndCommand(SetInterrupt(
         [s EXCEPT !.response_fifo = @ \o <<2, 0, 32, 0, 83, 67, 69, 65>>],
         Interrupt.INT2))

\* a variant that latches the parameter bytes as they are
ExecuteSetloc_Undecoded(s, e) ==
  EndCommand(SendACKAndStat(
    [s EXCEPT !.setloc_position =
                [minute |-> Peek(s.param_fifo, 0, e.stale),
                 second |-> Peek(s.param_fifo, 1, e.stale),
                 frame |-> Peek(s.param_fifo, 2, e.stale)],
              !.setloc_pending = TRUE]))

ExecuteSetloc(s, e) ==
  EndCommand(SendACKAndStat(
    [s EXCEPT !.setloc_position =
                [minute |-> BCDToDecimal(Peek(s.param_fifo, 0, e.stale)),
                 second |-> BCDToDecimal(Peek(s.param_fifo, 1, e.stale)),
                 frame |-> BCDToDecimal(Peek(s.param_fifo, 2, e.stale))],
              !.setloc_pending = TRUE]))

ExecuteSeek(s) ==
  IF ~s.has_media THEN EndCommand(SendErrorResponse(s, 128))
  ELSE EndCommand(SendACKAndStat(BeginSeeking(StopReading(s))))

ExecuteRead(s) ==
  IF ~s.has_media THEN EndCommand(SendErrorResponse(s, 128))
  ELSE EndCommand(SendACKAndStat(BeginReading(StopReading(s), FALSE)))

\* the track Play starts: one past the last restarts the current track
ExecutePlay_Track(s, param) ==
  IF param > DiscTrackCount
  THEN TrackNumberAt(s.media_lba, DiscTrackCount) ELSE param

ExecutePlay_Setloc(s, param) ==
  IF param # 0
  THEN [s EXCEPT !.setloc_position =
                   FromLBA(TrackStartLBA(ExecutePlay_Track(s, param))),
                 !.setloc_pending = TRUE]
  ELSE s

ExecutePlay(s) ==
  IF ~s.has_media THEN EndCommand(SendErrorResponse(s, 128))
  ELSE EndCommand(SendACKAndStat(
         BeginReading(
           ExecutePlay_Setloc(s, IF s.param_fifo = <<>> THEN 0
                                 ELSE s.param_fifo[1]),
           TRUE)))

\* Pause with the short delay whatever the drive was doing
ExecutePause_ShortDelay(s, e) ==
  IF s.command_stage = 0
  THEN NextCommandStage(StopReading(SendACKAndStat(s)), TRUE, 7000, e)
  ELSE EndCommand(SetInterrupt(
         [s EXCEPT !.response_fifo = Append(@, s.secondary_status)],
         Interrupt.INT2))

ExecutePause(s, e) ==
  IF s.command_stage = 0
  THEN LET was_reading == IsReadingOrPlaying(s)
           time == IF was_reading
                   THEN (IF Bit(s.mode, ModeBit.double_speed) THEN 2000000
                         ELSE 1000000)
                   ELSE 7000
       IN NextCommandStage(StopReading(SendACKAndStat(s)), TRUE, time, e)
  ELSE EndCommand(SetInterrupt(
         [s EXCEPT !.response_fifo = Append(@, s.secondary_status)],
         Interrupt.INT2))

ExecuteInit(s, e) ==
  IF s.command_stage = 0
  THEN NextCommandStage(StopReading(SendACKAndStat(s)), TRUE, 8000, e)
  ELSE LET ss == WithBit(0, SecondaryBit.motor_on, TRUE)
       IN EndCommand(SetInterrupt(
            [s EXCEPT !.mode = 0, !.secondary_status = ss,
                      !.response_fifo = Append(@, ss)],
            Interrupt.INT2))

ExecuteGetloc(s) ==
  LET h == s.last_sector_header
      sh == s.last_sector_subheader
      \* the subheader is stored twice in the sector, so it is 8 bytes
      L == <<h.minute, h.second, h.frame, h.sector_mode,
             sh.file_number, sh.channel_number, sh.submode, sh.codinginfo,
             sh.file_number, sh.channel_number, sh.submode, sh.codinginfo>>
      P == <<1, 1, h.minute, h.second, h.frame, h.minute, h.second, h.frame>>
  IN EndCommand(SetInterrupt(
       [s EXCEPT !.response_fifo =
          @ \o (IF s.command = Command.GetlocL THEN L ELSE P)],
       Interrupt.ACK))

ExecuteGetTN(s) ==
  IF s.has_media
  THEN EndCommand(SetInterrupt(
         [s EXCEPT !.response_fifo =
            @ \o <<s.secondary_status,
                   DecimalToBCD(TrackNumberAt(s.media_lba, DiscTrackCount)),
                   DecimalToBCD(DiscTrackCount)>>],
         Interrupt.ACK))
  ELSE EndCommand(SendErrorResponse(s, 128))

ExecuteGetTD(s) ==
  LET track == BCDToDecimal(s.param_fifo[1])
      pos == IF track = 0 THEN FromLBA(DiscLBACount)
             ELSE FromLBA(TrackStartLBA(track))
  IN IF Len(s.param_fifo) < 1 THEN Fail(s, "Assert GetTD")
     ELSE IF ~s.has_media THEN EndCommand(SendErrorResponse(s, 128))
     ELSE IF track > DiscTrackCount THEN EndCommand(SendErrorResponse(s, 16))
     ELSE EndCommand(SetInterrupt(
            [s EXCEPT !.response_fifo =
               @ \o <<s.secondary_status, DecimalToBCD(pos.minute),
                      DecimalToBCD(pos.second)>>],
            Interrupt.ACK))

ExecuteCommand(s, e) ==
  IF s.panic # NoPanic THEN s
  ELSE
    LET c == s.command
    IN CASE c = Command.Getstat -> EndCommand(SendACKAndStat(s))
         [] c = Command.Test ->
              IF s.param_fifo = <<>> THEN Fail(s, "Assert FIFOQueue::Pop")
              ELSE ExecuteTestCommand([s EXCEPT !.param_fifo = Tail(@)],
                                      Head(s.param_fifo))
         [] c = Command.GetID -> ExecuteGetID(s, e)
         [] c = Command.Setfilter ->
              EndCommand(SendACKAndStat(
                [s EXCEPT !.filter_file_number = Peek(s.param_fifo, 0, e.stale),
                          !.filter_channel_number =
                             Peek(s.param_fifo, 1, e.stale)]))
         [] c = Command.Setmode ->
              EndCommand(SendACKAndStat(
                [s EXCEPT !.mode = Peek(s.param_fifo, 0, e.stale)]))
         [] c = Command.Setloc -> ExecuteSetloc(s, e)
         [] c \in {Command.SeekL, Command.SeekP} -> ExecuteSeek(s)
         [] c \in {Command.ReadN, Command.ReadS} -> ExecuteRead(s)
         [] c = Command.Play -> ExecutePlay(s)
         [] c = Command.Pause -> ExecutePause(s, e)
         [] c = Command.Init -> ExecuteInit(s, e)
         [] c = Command.Mute -> EndCommand(SendACKAndStat([s EXCEPT !.muted = TRUE]))
         [] c = Command.Demute ->
              EndCommand(SendACKAndStat([s EXCEPT !.muted = FALSE]))
         [] c \in {Command.GetlocL, Command.GetlocP} -> ExecuteGetloc(s)
         [] c = Command.GetTN -> ExecuteGetTN(s)
         [] c = Command.GetTD -> ExecuteGetTD(s)
         [] OTHER -> Fail(s, "Panic Unknown command")

\* the command half of Execute once the ticks are taken off
Execute_CommandDue(s, e) ==
  IF s.command_remaining_ticks <= 0 THEN ExecuteCommand(s, e) ELSE s

Execute_Command(s, ticks, e) ==
  IF s.command_state = CommandState.WaitForExecute
  THEN Execute_CommandDue([s EXCEPT !.command_remaining_ticks = @ - ticks], e)
  ELSE s

\* the drive half of Execute once the ticks are taken off
Execute_DriveDue(s, e) ==
  IF s.read_or_seek_remaining_ticks > 0 THEN s
  ELSE IF Bit(s.secondary_status, SecondaryBit.seeking)
    THEN DoSeekComplete(s)
  ELSE DoSectorRead(s, e.ub)

Execute_Drive(s, ticks, e) ==
  IF s.panic # NoPanic \/ ~IsActive(s) THEN s
  ELSE Execute_DriveDue(
         [s EXCEPT !.read_or_seek_remaining_ticks = @ - ticks], e)

Execute(s, ticks, e) ==
  IF s.panic # NoPanic THEN s
  ELSE Execute_Drive(Execute_Command(s, ticks, e), ticks, e)

\* BeginCommand once the opcode and its ack delay are latched
BeginCommand_Schedule(s, e) ==
  IF s.command_remaining_ticks = 0 THEN ExecuteCommand(s, e)
  ELSE UpdateStatusRegister(
         [s EXCEPT !.command_state = CommandState.WaitForExecute])

\* BeginCommand after System::Synchronize
BeginCommand_Latch(s, cmd, e) ==
  IF s.panic # NoPanic THEN s
  ELSE BeginCommand_Schedule(
         [s EXCEPT !.command = cmd,
                   !.command_stage = 0,
                   !.command_remaining_ticks =
                      GetAckDelayForCommand([s EXCEPT !.command = cmd])],
         e)

BeginCommand(s, cmd, e) ==
  IF s.panic # NoPanic THEN s
  ELSE BeginCommand_Latch(
         Synchronize([s EXCEPT !.response_fifo = <<>>], e), cmd, e)

-----------------------------------------------------------------------------
(* The register file, DMA and media entry points.                          *)

\* a variant that loads the raw sector whatever the mode says
LoadDataFIFO_AlwaysRaw(s) ==
  IF s.panic # NoPanic THEN s
  ELSE IF s.sector_buffer = <<>> THEN s
  ELSE
    LET run == [lba |-> s.sector_buffer[1].lba,
                from |-> SECTOR_SYNC_SIZE,
                len |-> RAW_SECTOR_SIZE - SECTOR_SYNC_SIZE]
    IN IF DataFifoSize(s.data_fifo) + run.len > DATA_FIFO_SIZE
       THEN Fail(s, "Assert FIFOQueue::PushRange")
       ELSE [s EXCEPT !.data_fifo = Append(@, run), !.sector_buffer = <<>>]

LoadDataFIFO(s) ==
  IF s.panic # NoPanic THEN s
  ELSE IF s.sector_buffer = <<>> THEN s
  ELSE
    LET raw == Bit(s.mode, ModeBit.read_raw_sector)
        run == [lba |-> s.sector_buffer[1].lba,
                from |-> IF raw THEN SECTOR_SYNC_SIZE ELSE SECTOR_SYNC_SIZE + 12,
                len |-> IF raw THEN RAW_SECTOR_SIZE - SECTOR_SYNC_SIZE
                        ELSE DATA_SECTOR_SIZE]
    IN IF DataFifoSize(s.data_fifo) + run.len > DATA_FIFO_SIZE
       THEN Fail(s, "Assert FIFOQueue::PushRange")
       ELSE [s EXCEPT !.data_fifo = Append(@, run), !.sector_buffer = <<>>]

ReadRegister(s, offset) ==
  IF s.panic # NoPanic THEN s
  ELSE CASE offset = 0 -> s
         [] offset = 1 ->
              IF s.response_fifo = <<>> THEN s
              ELSE UpdateStatusRegister([s EXCEPT !.response_fifo = Tail(@)])
         [] offset = 2 ->
              IF s.data_fifo = <<>> THEN Fail(s, "Assert FIFOQueue::Pop")
              ELSE UpdateStatusRegister(
                     [s EXCEPT !.data_fifo = DataFifoPop(@, 1)])
         [] OTHER -> s

\* WriteRegister case 3, index 1: the interrupt flag register
\* bit 6 of the value written clears the parameter FIFO
WriteInterruptFlag_ClearParams(s, value) ==
  IF s.panic # NoPanic THEN s
  ELSE IF Bit(value, 6)
    THEN UpdateStatusRegister([s EXCEPT !.param_fifo = <<>>])
  ELSE s

\* a variant that leaves the command waiting
WriteInterruptFlag_NoResume(s) == s

\* the command waiting for the acknowledge goes on, after System::Synchronize
WriteInterruptFlag_Resume(s) ==
  IF s.panic # NoPanic THEN s
  ELSE [s EXCEPT !.command_state = CommandState.WaitForExecute]

WriteInterruptFlag_Cleared(s, e) ==
  IF s.interrupt_flag_register # 0 THEN s
  ELSE IF s.command_state = CommandState.WaitForIRQClear
    THEN WriteInterruptFlag_Resume(Synchronize(s, e))
  ELSE IF HasPendingAsyncInterrupt(s) THEN DeliverAsyncInterrupt(s)
  ELSE s

WriteInterruptFlag(s, value, e) ==
  WriteInterruptFlag_ClearParams(
    WriteInterruptFlag_Cleared(
      [s EXCEPT !.interrupt_flag_register =
                  BitClear(@, BitAnd(value, INTERRUPT_REGISTER_MASK))],
      e),
    value)

\* a variant that commits the staged matrix whatever bit 5 says
WriteApplyVolume_Always(s, value) ==
  [s EXCEPT !.adpcm_muted = Bit(value, 0),
            !.cd_audio_volume_matrix = s.next_cd_audio_volume_matrix]

\* WriteRegister case 3, index 3: audio volume apply changes
WriteApplyVolume(s, value) ==
  [s EXCEPT !.adpcm_muted = Bit(value, 0),
            !.cd_audio_volume_matrix =
               IF Bit(value, 5) THEN s.next_cd_audio_volume_matrix ELSE @]

\* a variant whose full FIFO drops the byte written last
WriteParameter_DropNewest(s, value) ==
  LET f == IF Len(s.param_fifo) = PARAM_FIFO_SIZE
           THEN SubSeq(s.param_fifo, 1, PARAM_FIFO_SIZE - 1) ELSE s.param_fifo
  IN UpdateStatusRegister([s EXCEPT !.param_fifo = Append(f, value)])

\* WriteRegister case 2, index 0: the parameter FIFO
WriteParameter(s, value) ==
  LET f == IF Len(s.param_fifo) = PARAM_FIFO_SIZE
           THEN Tail(s.param_fifo) ELSE s.param_fifo
  IN UpdateStatusRegister([s EXCEPT !.param_fifo = Append(f, value)])

WriteRegister(s, offset, value, e) ==
  IF s.panic # NoPanic THEN s
  ELSE
    LET index == s.status % 4
    IN CASE offset = 0 ->
              [s EXCEPT !.status = (@ - (@ % 4)) + (value % 4)]
         [] offset = 1 /\ index = 0 ->
              IF s.command_state = CommandState.Idle
              THEN BeginCommand(s, value, e) ELSE s
         [] offset = 1 /\ index \in {1, 2} -> s
         [] offset = 1 /\ index = 3 ->
              [s EXCEPT !.next_cd_audio_volume_matrix[2][1] = value]
         [] offset = 2 /\ index = 0 -> WriteParameter(s, value)
         [] offset = 2 /\ index = 1 ->
              [s EXCEPT !.interrupt_enable_register =
                          BitAnd(value, INTERRUPT_REGISTER_MASK)]
         [] offset = 2 /\ index = 2 ->
              [s EXCEPT !.next_cd_audio_volume_matrix[1][1] = value]
         [] offset = 2 /\ index = 3 ->
              [s EXCEPT !.next_cd_audio_volume_matrix[2][1] = value]
         [] offset = 3 /\ index = 0 ->
              IF Bit(value, RequestBit.SMEN) THEN Fail(s, "Assert !rr.SMEN")
              ELSE IF Bit(value, RequestBit.BFRD)
                THEN UpdateStatusRegister(LoadDataFIFO(s))
              ELSE UpdateStatusRegister([s EXCEPT !.data_fifo = <<>>])
         [] offset = 3 /\ index = 1 -> WriteInterruptFlag(s, value, e)
         [] offset = 3 /\ index = 2 ->
              [s EXCEPT !.next_cd_audio_volume_matrix[1][2] = value]
         [] offset = 3 /\ index = 3 -> WriteApplyVolume(s, value)
         [] OTHER -> s

\* the words buffer of DMARead: PopRange writes bytes_to_read bytes at its
\* start, memset has zeroed it from word zero_from on, the rest is unwritten
DMARead_Words(s, word_count, bytes_to_read, zero_from) ==
  DataFifoTake(s.data_fifo, bytes_to_read)
  \o FillRun(UnwrittenBytes, Min(zero_from, word_count) * 4 - bytes_to_read)
  \o FillRun(ZeroBytes,
              word_count * 4
              - (IF bytes_to_read > zero_from * 4 THEN bytes_to_read
                 ELSE zero_from * 4))

\* a variant without the memset
DMARead_NoZeroFill(s, word_count) ==
  IF s.panic # NoPanic THEN s
  ELSE LET bytes_to_read == Min(word_count * 4, DataFifoSize(s.data_fifo))
       IN [s EXCEPT !.data_fifo = DataFifoPop(@, bytes_to_read),
                    !.dma_words =
                       DMARead_Words(s, word_count, bytes_to_read, word_count)]

DMARead(s, word_count) ==
  IF s.panic # NoPanic THEN s
  ELSE LET words_in_fifo == DataFifoSize(s.data_fifo) \div 4
           bytes_to_read == Min(word_count * 4, DataFifoSize(s.data_fifo))
       IN [s EXCEPT !.data_fifo = DataFifoPop(@, bytes_to_read),
                    !.dma_words =
                       DMARead_Words(s, word_count, bytes_to_read,
                                     Min(words_in_fifo, word_count))]

RemoveMedia(s) ==
  IF s.panic # NoPanic \/ ~s.has_media THEN s
  ELSE [s EXCEPT !.has_media = FALSE, !.media_lba = 0]

\* opened: whether CDImage::Open found the image
InsertMedia(s, opened) ==
  IF s.panic # NoPanic \/ ~opened THEN s
  ELSE [RemoveMedia(s) EXCEPT !.has_media = TRUE, !.media_lba = 0]

\* the members DoState hands to the StateWrapper, in its order
SerializedFields ==
  {"command", "command_state", "command_stage", "command_remaining_ticks",
   "read_or_seek_remaining_ticks", "status", "secondary_status", "mode",
   "interrupt_enable_register", "interrupt_flag_register",
   "pending_async_interrupt", "setloc_position", "seek_position",
   "setloc_pending", "read_after_seek", "play_after_seek", "muted",
   "adpcm_muted", "filter_file_number", "filter_channel_number",
   "last_sector_header", "last_sector_subheader", "cd_audio_volume_matrix",
   "next_cd_audio_volume_matrix", "xa_last_samples", "xa_resample_p",
   "xa_resample_sixstep", "param_fifo", "response_fifo",
   "async_response_fifo", "data_fifo", "sector_buffer"}

\* the name of the one image file there is
MediaFileName == "disc"

\* what DoState writes: the serialized members, then the file name and the
\* position of the inserted image (an empty name and 0 without one)
DoStateImage(s) ==
  [fields |-> [f \in SerializedFields |-> s[f]],
   media_filename |-> IF s.has_media THEN MediaFileName ELSE "",
   media_lba |-> IF s.has_media THEN s.media_lba ELSE 0]

\* DoState with a writing StateWrapper
DoStateWrite(s) ==
  IF s.panic # NoPanic THEN s
  ELSE [s EXCEPT !.saved_state = <<DoStateImage(s)>>]

\* DoState reading back, with a seek that is forgotten
DoStateRead_Media_NoSeek(s, image, opened) ==
  IF image.media_filename # "" /\ opened
  THEN [s EXCEPT !.has_media = TRUE, !.media_lba = 0]
  ELSE [s EXCEPT !.has_media = FALSE, !.media_lba = 0]

\* the tail of DoState with a reading StateWrapper: the image named in the
\* save state is opened again and sought to the saved position
DoStateRead_Media(s, image, opened) ==
  IF image.media_filename # "" /\ opened /\ MediaCanSeek(image.media_lba)
  THEN [s EXCEPT !.has_media = TRUE, !.media_lba = image.media_lba]
  ELSE [s EXCEPT !.has_media = FALSE, !.media_lba = 0]

\* DoState with a reading StateWrapper.  opened: whether CDImage::Open finds
\* the image
DoStateRead(s, image, opened) ==
  IF s.panic # NoPanic THEN s
  ELSE DoStateRead_Media(
         [f \in DOMAIN s |->
            IF f \in SerializedFields THEN image.fields[f] ELSE s[f]],
         image, opened)

-----------------------------------------------------------------------------
(* The state after construction, Initialize and Reset.                     *)

SoftReset ==
  UpdateStatusRegister(
    [command_state |-> CommandState.Idle, command |-> Command.Sync,
     command_stage |-> 0, command_remaining_ticks |-> 0,
     read_or_seek_remaining_ticks |-> 0, status |-> 0, secondary_status |-> 0,
     mode |-> 0, interrupt_enable_register |-> INTERRUPT_REGISTER_MASK,
     interrupt_flag_register |-> 0, pending_async_interrupt |-> 0,
     setloc_position |-> [minute |-> 0, second |-> 0, frame |-> 0],
     seek_position |-> [minute |-> 0, second |-> 0, frame |-> 0],
     setloc_pending |-> FALSE, read_after_seek |-> FALSE,
     play_after_seek |-> FALSE, muted |-> FALSE, adpcm_muted |-> FALSE,
     filter_file_number |-> 0, filter_channel_number |-> 0,
     last_sector_header |->
       [minute |-> 0, second |-> 0, frame |-> 0, sector_mode |-> 0],
     last_sector_subheader |->
       [file_number |-> 0, channel_number |-> 0, submode |-> 0,
        codinginfo |-> 0],
     cd_audio_volume_matrix |-> <<<<128, 0>>, <<0, 128>>>>,
     next_cd_audio_volume_matrix |-> <<<<128, 0>>, <<0, 128>>>>,
     param_fifo |-> <<>>, response_fifo |-> <<>>, async_response_fifo |-> <<>>,
     data_fifo |-> <<>>, sector_buffer |-> <<>>, has_media |-> FALSE,
     media_lba |-> 0, dma_request |-> FALSE, dma_words |-> <<>>,
     panic |-> NoPanic,
     latched |-> <<>>, irq_requests |-> 0, async_requested |-> <<>>,
     sector_reads |-> 0, xa_resample_p |-> 0, xa_resample_sixstep |-> 6,
     xa_last_samples |-> <<>>, saved_state |-> <<>>, spu_ensure |-> <<>>,
     spu_samples |-> 0])

\* the variables of the controller are the fields of the record s
Controller(s) ==
  /\ command_state = s.command_state
  /\ command = s.command
  /\ command_stage = s.command_stage
  /\ command_remaining_ticks = s.command_remaining_ticks
  /\ read_or_seek_remaining_ticks = s.read_or_seek_remaining_ticks
  /\ status = s.status
  /\ secondary_status = s.secondary_status
  /\ mode = s.mode
  /\ interrupt_enable_register = s.interrupt_enable_register
  /\ interrupt_flag_register = s.interrupt_flag_register
  /\ pending_async_interrupt = s.pending_async_interrupt
  /\ setloc_position = s.setloc_position
  /\ seek_position = s.seek_position
  /\ setloc_pending = s.setloc_pending
  /\ read_after_seek = s.read_after_seek
  /\ play_after_seek = s.play_after_seek
  /\ muted = s.muted
  /\ adpcm_muted = s.adpcm_muted
  /\ filter_file_number = s.filter_file_number
  /\ filter_channel_number = s.filter_channel_number
  /\ last_sector_header = s.last_sector_header
  /\ last_sector_subheader = s.last_sector_subheader
  /\ cd_audio_volume_matrix = s.cd_audio_volume_matrix
  /\ next_cd_audio_volume_matrix = s.next_cd_audio_volume_matrix
  /\ param_fifo = s.param_fifo
  /\ response_fifo = s.response_fifo
  /\ async_response_fifo = s.async_response_fifo
  /\ data_fifo = s.data_fifo
  /\ sector_buffer = s.sector_buffer
  /\ has_media = s.has_media
  /\ media_lba = s.media_lba
  /\ dma_request = s.dma_request
  /\ dma_words = s.dma_words
  /\ panic = s.panic
  /\ latched = s.latched
  /\ irq_requests = s.irq_requests
  /\ async_requested = s.async_requested
  /\ sector_reads = s.sector_reads
  /\ xa_resample_p = s.xa_resample_p
  /\ xa_resample_sixstep = s.xa_resample_sixstep
  /\ xa_last_samples = s.xa_last_samples
  /\ saved_state = s.saved_state
  /\ spu_ensure = s.spu_ensure
  /\ spu_samples = s.spu_samples

Init ==
  /\ Controller(SoftReset)
  /\ audio_in = <<0, 0>>
  /\ audio_out = <<>>

-----------------------------------------------------------------------------
(* The environment: what the guest CPU, the DMA engine, the scheduler and  *)
(* the frontend do with the controller.                                    *)

\* parameter bytes the guest queues before it issues a command
MaxParams == 1

\* the CPU reads at most this many bytes of a loaded sector one by one
CpuDataReadMax == 4

\* ticks given to Execute once a countdown has already run out
OverdueTicks == 1000

\* Execute calls followed while a command countdown stays run out
MaxOverdueRuns == 2

\* ticks of a seek or sector countdown that Execute calls may consume without
\* completing it
MaxLag == 4000

\* the length the running seek or sector countdown started with
DriveCountdownStart(s) ==
  IF Bit(s.secondary_status, SecondaryBit.seeking)
  THEN LET new_lba == ToLBA(s.seek_position)
       IN 20000 + 100 * (IF new_lba > s.media_lba THEN new_lba - s.media_lba
                         ELSE s.media_lba - new_lba)
  ELSE GetTicksForRead(s)

\* the tick count the scheduler hands over: the time until the earliest
\* programmed downcount elapses, or OverdueTicks when one has elapsed already.
\* Commands run between two drive events for at most MaxLag ticks.
TickChoices(s) ==
  LET waiting == s.command_state = CommandState.WaitForExecute
      c == s.command_remaining_ticks
      r == s.read_or_seek_remaining_ticks
      armed == (IF waiting THEN {c} ELSE {})
               \cup (IF IsActive(s) THEN {r} ELSE {})
      all == IF armed = {} THEN {}
             ELSE IF \E x \in armed : x <= 0 THEN {OverdueTicks}
             ELSE {CHOOSE x \in armed : \A y \in armed : x <= y}
  IN {t \in all : \/ ~IsActive(s)
                  \/ t >= r
                  \/ DriveCountdownStart(s) - (r - t) <= MaxLag}

\* what the environment decides within one call: the ticks System::Synchronize
\* flushes, the byte in a FIFO slot past the end, the outcome of a null m_media
Environments(s) ==
  [pending : {0} \cup TickChoices(s), stale : {0},
   ub : IF s.has_media THEN {"crash"} ELSE {"crash", "continue"}]

\* the (offset, value) pairs a guest g writes when the index is idx; NoGuest,
\* the guest that writes nothing, is defined with the specifications below
GuestWrites(s, g) ==
  LET idx == s.status % 4
  IN ({0} \X g.indexes)
     \cup (IF idx = 0 THEN {1} \X g.opcodes ELSE {})
     \cup (IF idx = 0 /\ Len(s.param_fifo) < g.max_params
           THEN {2} \X g.params ELSE {})
     \cup (IF idx = 0 THEN {2} \X {b + Len(s.param_fifo) : b \in g.fills}
           ELSE {})
     \cup (IF idx = 0 THEN {3} \X g.requests ELSE {})
     \cup (IF idx = 1 THEN {3} \X g.acks ELSE {})
     \cup (IF idx = 1 THEN {2} \X g.enables ELSE {})
     \cup (IF idx = 2 THEN {2, 3} \X g.volumes ELSE {})
     \cup (IF idx = 3 THEN ({1, 2} \X g.volumes) \cup ({3} \X g.applies)
           ELSE {})

ReadRegisterAction(offsets) ==
  /\ panic = NoPanic
  /\ \E offset \in offsets :
       /\ offset = 2 =>
            DataFifoSize(data_fifo) <= CpuDataReadMax
       /\ Commit(ReadRegister(Enter, offset))

WriteRegisterAction(g) ==
  /\ panic = NoPanic
  /\ \E w \in GuestWrites(Cur, g), e \in Environments(Cur) :
       Commit(WriteRegister(Enter, w[1], w[2], e))

\* a DMA block read; one that leaves bytes behind starts from a whole data
\* sector, so that the remainders do not pile up
DMAReadAction(word_counts) ==
  /\ panic = NoPanic
  /\ \E word_count \in word_counts :
       /\ \/ word_count * 4 >= DataFifoSize(data_fifo)
          \/ DataFifoSize(data_fifo) = DATA_SECTOR_SIZE
       /\ Commit(DMARead(Enter, word_count))

ExecuteAction ==
  /\ panic = NoPanic
  /\ command_state = CommandState.WaitForExecute =>
       command_remaining_ticks > 0 - MaxOverdueRuns * OverdueTicks
  /\ \E ticks \in TickChoices(Cur), e \in Environments(Cur) :
       Commit(Execute(Enter, ticks, e))

InsertMediaAction ==
  /\ panic = NoPanic
  /\ \E opened \in BOOLEAN : Commit(InsertMedia(Enter, opened))

RemoveMediaAction ==
  /\ panic = NoPanic
  /\ Commit(RemoveMedia(Enter))

\* the scheduler runs the handler of a waiting command while the drive seeks:
\* one more command than ExecuteAction lets through before the seek completes
ExecuteDuringSeekAction ==
  /\ panic = NoPanic
  /\ command_state = CommandState.WaitForExecute
  /\ Bit(secondary_status, SecondaryBit.seeking)
  /\ 0 < command_remaining_ticks
  /\ command_remaining_ticks < read_or_seek_remaining_ticks
  /\ DriveCountdownStart(Cur) - read_or_seek_remaining_ticks <= MaxLag
  /\ \E e \in Environments(Cur) :
       Commit(Execute(Enter, command_remaining_ticks, e))

\* a save state is written; here only of a controller that is idle, drive
\* stopped, with a disc
SaveStateAction ==
  /\ panic = NoPanic
  /\ command_state = CommandState.Idle
  /\ ~IsActive(Cur)
  /\ has_media
  /\ Commit(DoStateWrite(Enter))

\* the save state written last is read back
LoadStateAction ==
  /\ panic = NoPanic
  /\ saved_state # <<>>
  /\ \E opened \in BOOLEAN : Commit(DoStateRead(Enter, saved_state[1], opened))

\* a guest that writes nothing
NoGuest ==
  [indexes |-> {}, opcodes |-> {}, params |-> {}, max_params |-> MaxParams,
   fills |-> {}, requests |-> {}, acks |-> {}, enables |-> {}, volumes |-> {},
   applies |-> {}]

\* Spec: the command pipeline.  Every opcode that takes no parameter, the
\* parameter FIFO, acknowledgements, response reads, media changes.
GuestCommands ==
  [NoGuest EXCEPT
     !.indexes = {0, 1},
     !.opcodes = {Command.Getstat, Command.GetID, Command.Pause, Command.Init,
                  Command.Mute, Command.Demute, Command.GetTN, Command.ReadN},
     !.params = {0},
     !.acks = {7, 64}]

Next ==
  \/ ReadRegisterAction({0, 1, 3})
  \/ WriteRegisterAction(GuestCommands)
  \/ ExecuteAction
  \/ InsertMediaAction
  \/ RemoveMediaAction

Spec == Init /\ [][Next]_vars

\* SpecDrive: the drive and the interrupt arbiter.  Setloc, seeks, reads and
\* playback in any order, acknowledgements, media changes.
GuestDrive ==
  [NoGuest EXCEPT
     !.indexes = {0, 1},
     !.opcodes = {Command.Setloc, Command.SeekL, Command.ReadN, Command.Play},
     !.params = {2},
     !.acks = {7}]

NextDrive ==
  \/ WriteRegisterAction(GuestDrive)
  \/ ExecuteAction
  \/ InsertMediaAction
  \/ RemoveMediaAction

SpecDrive == Init /\ [][NextDrive]_vars

\* SpecData: the data path.  Sector reads, the request register,
\* DMA block reads and CPU byte reads of the data FIFO.
GuestData ==
  [NoGuest EXCEPT
     !.indexes = {0, 1},
     !.opcodes = {Command.ReadN},
     !.requests = {128, 0},
     !.acks = {7}]

NextData ==
  \/ ReadRegisterAction({0, 2})
  \/ WriteRegisterAction(GuestData)
  \/ DMAReadAction({511, 512})
  \/ ExecuteAction
  \/ InsertMediaAction

SpecData == Init /\ [][NextData]_vars

\* SpecInterrupt: the interrupt arbiter.  Sector reads and seeks complete
\* while the acknowledge of a one-stage or of a two-stage command is, or is
\* not, outstanding.
GuestInterrupt ==
  [NoGuest EXCEPT
     !.indexes = {0, 1},
     !.opcodes = {Command.ReadN, Command.SeekL, Command.GetID},
     !.acks = {7}]

NextInterrupt ==
  \/ WriteRegisterAction(GuestInterrupt)
  \/ ExecuteAction
  \/ InsertMediaAction

SpecInterrupt == Init /\ [][NextInterrupt]_vars

\* SpecAudio: the XA audio path.  Sector reads with xa_enable and xa_filter
\* set or clear, and with a filter that matches the audio sectors or not.
GuestAudio ==
  [NoGuest EXCEPT
     !.indexes = {0, 1},
     !.opcodes = {Command.Setmode, Command.Setfilter, Command.ReadN},
     !.params = {1, 72},
     !.acks = {7}]

NextAudio ==
  \/ WriteRegisterAction(GuestAudio)
  \/ ExecuteAction
  \/ InsertMediaAction

SpecAudio == Init /\ [][NextAudio]_vars

\* SpecRead: a read at a Setloc position.  Setloc back to the start of the
\* disc, ReadN, the seek and the sector reads that follow, the request
\* register.
GuestRead ==
  [NoGuest EXCEPT
     !.indexes = {0, 1},
     !.opcodes = {Command.Setloc, Command.ReadN},
     !.params = {0},
     !.requests = {128},
     !.acks = {7}]

NextRead ==
  \/ WriteRegisterAction(GuestRead)
  \/ ExecuteAction
  \/ InsertMediaAction

SpecRead == Init /\ [][NextRead]_vars

\* SpecVolume: the volume registers.  Writes to the staged matrix and to the
\* apply register under every index, next to a command and its acknowledge.
GuestVolume ==
  [NoGuest EXCEPT
     !.indexes = {0, 1, 2, 3},
     !.opcodes = {Command.Getstat},
     !.acks = {7},
     !.volumes = {0, 64},
     !.applies = {0, 1, 32}]

NextVolume ==
  \/ WriteRegisterAction(GuestVolume)
  \/ ExecuteAction

SpecVolume == Init /\ [][NextVolume]_vars

\* parameter bytes Setloc takes: minute, second, frame
SetlocParams == 3

\* BCD bytes the guest gives to Setloc: 02, 16, 59 and 74
BCDSamples == {2, 22, 89, 116}

\* SpecSetloc: Setloc with up to three BCD parameters.
GuestSetloc ==
  [NoGuest EXCEPT
     !.indexes = {0, 1},
     !.opcodes = {Command.Setloc},
     !.params = BCDSamples,
     !.max_params = SetlocParams,
     !.acks = {7}]

NextSetloc ==
  \/ WriteRegisterAction(GuestSetloc)
  \/ ExecuteAction

SpecSetloc == Init /\ [][NextSetloc]_vars

\* SpecSpeed: the drive speed.  Setmode sets and clears double_speed before
\* and while sectors are read.
GuestSpeed ==
  [NoGuest EXCEPT
     !.indexes = {0, 1},
     !.opcodes = {Command.Setmode, Command.ReadN},
     !.params = {0, 128},
     !.acks = {7}]

NextSpeed ==
  \/ WriteRegisterAction(GuestSpeed)
  \/ ExecuteAction
  \/ InsertMediaAction

SpecSpeed == Init /\ [][NextSpeed]_vars

\* SpecParams: the parameter FIFO.  The guest numbers the bytes it writes, it
\* writes on when the FIFO is full, issues Getstat and writes the interrupt flag
\* register with and without bit 0x40.
GuestParams ==
  [NoGuest EXCEPT
     !.indexes = {0, 1},
     !.opcodes = {Command.Getstat},
     !.fills = {1},
     !.acks = {7, 64, 71}]

NextParams ==
  \/ WriteRegisterAction(GuestParams)
  \/ ExecuteAction

SpecParams == Init /\ [][NextParams]_vars

\* SpecTest: the Test command with the sub-functions 0x20 and 0x00, next to
\* a one-stage and a two-stage command.
GuestTest ==
  [NoGuest EXCEPT
     !.indexes = {0, 1},
     !.opcodes = {Command.Test, Command.Getstat, Command.GetID},
     !.params = {0, 32},
     !.acks = {7}]

NextTest ==
  \/ WriteRegisterAction(GuestTest)
  \/ ExecuteAction
  \/ InsertMediaAction

SpecTest == Init /\ [][NextTest]_vars

\* SpecAsync: async interrupts.  Seeks to the start of the disc and to a
\* position past its end, reads, and acknowledgements that come before or
\* after the drive event.
GuestAsync ==
  [NoGuest EXCEPT
     !.indexes = {0, 1},
     !.opcodes = {Command.Setloc, Command.SeekL, Command.ReadN},
     !.params = {0, 2},
     !.acks = {7}]

NextAsync ==
  \/ ReadRegisterAction({1})
  \/ WriteRegisterAction(GuestAsync)
  \/ ExecuteAction
  \/ InsertMediaAction

SpecAsync == Init /\ [][NextAsync]_vars

\* SpecPause: Pause of a stopped, a seeking and a reading drive, at single and
\* at double speed.
GuestPause ==
  [NoGuest EXCEPT
     !.indexes = {0, 1},
     !.opcodes = {Command.Setmode, Command.SeekL, Command.ReadN,
                  Command.Pause},
     !.params = {128},
     !.acks = {7}]

NextPause ==
  \/ WriteRegisterAction(GuestPause)
  \/ ExecuteAction
  \/ InsertMediaAction

SpecPause == Init /\ [][NextPause]_vars

\* SpecReseek: commands executed while the drive seeks.  Play of a track,
\* and Setloc issued during its seek.
GuestReseek ==
  [NoGuest EXCEPT
     !.indexes = {0, 1},
     !.opcodes = {Command.Setloc, Command.Play},
     !.params = {2},
     !.acks = {7}]

NextReseek ==
  \/ WriteRegisterAction(GuestReseek)
  \/ ExecuteAction
  \/ ExecuteDuringSeekAction
  \/ InsertMediaAction

SpecReseek == Init /\ [][NextReseek]_vars

-----------------------------------------------------------------------------
(* The volume matrix applied to a sample pair.                             *)

\* std::clamp<s32>(v, -0x8000, 0x7FFF)
ClampS16(v) ==
  IF v < 0 - 32768 THEN 0 - 32768 ELSE IF v > 32767 THEN 32767 ELSE v

\* the conversion of an int to s16: the low 16 bits, as a signed number
TruncateS16(v) == ((v + 32768) % 65536) - 32768

\* (sample * volume) >> 7 on s32, the shift being arithmetic, clamped to s16
ApplyVolume(sample, volume) == ClampS16((sample * volume) \div 128)

\* the pair ProcessCDDASector gives to AddCDAudioSample for a sample pair of
\* the sector; volume_matrix[i + 1][j + 1] is m_cd_audio_volume_matrix[i][j]
ProcessCDDASector_Mix(samp_left, samp_right, volume_matrix) ==
  <<TruncateS16(ApplyVolume(samp_left, volume_matrix[1][1])
                + ApplyVolume(samp_right, volume_matrix[1][2])),
    TruncateS16(ApplyVolume(samp_left, volume_matrix[2][1])
                + ApplyVolume(samp_right, volume_matrix[2][2]))>>

\* the pair ResampleXAADPCM gives to AddCDAudioSample for an interpolated pair
ResampleXAADPCM_Mix(left_interp, right_interp, volume_matrix) ==
  <<TruncateS16(ApplyVolume(left_interp, volume_matrix[1][1])
                + ApplyVolume(right_interp, volume_matrix[2][1])),
    TruncateS16(ApplyVolume(left_interp, volume_matrix[2][1])
                + ApplyVolume(right_interp, volume_matrix[2][2]))>>

\* sample values and volumes the mixer is given: the ends of the s16 range,
\* half scale, the values around zero; volume off, unity (0x80) and full
SampleValues == {0 - 32768, 0 - 16384, 0 - 1, 0, 1, 16384, 32767}
VolumeValues == {0, 128, 255}

\* a sample pair of a CDDA sector is mixed and sent to the SPU
ProcessCDDASampleAction ==
  /\ panic = NoPanic
  /\ audio_out' = <<"cdda", ProcessCDDASector_Mix(audio_in[1], audio_in[2],
                                                  cd_audio_volume_matrix)>>
  /\ UNCHANGED audio_in
  /\ CommitController(Cur)

\* an interpolated pair of an XA-ADPCM sector is mixed and sent to the SPU
ResampleXASampleAction ==
  /\ panic = NoPanic
  /\ audio_out' = <<"xa", ResampleXAADPCM_Mix(audio_in[1], audio_in[2],
                                              cd_audio_volume_matrix)>>
  /\ UNCHANGED audio_in
  /\ CommitController(Cur)

\* SpecMix: the mixer as a function.  Any sample pair, any volume matrix.
InitMix ==
  /\ \E m \in [{1, 2} -> [{1, 2} -> VolumeValues]] :
       Controller([SoftReset EXCEPT
                     !.cd_audio_volume_matrix = <<<<m[1][1], m[1][2]>>,
                                                  <<m[2][1], m[2][2]>>>>])
  /\ audio_in \in SampleValues \X SampleValues
  /\ audio_out = <<>>

NextMix ==
  \/ ProcessCDDASampleAction
  \/ ResampleXASampleAction

SpecMix == InitMix /\ [][NextMix]_vars

\* SpecState: save states.  A read is started and paused, and save states of
\* the idle controller are written and read back at any point after.
GuestState ==
  [NoGuest EXCEPT
     !.indexes = {0, 1},
     !.opcodes = {Command.ReadN, Command.Pause},
     !.acks = {7}]

NextState ==
  \/ WriteRegisterAction(GuestState)
  \/ ExecuteAction
  \/ InsertMediaAction
  \/ SaveStateAction
  \/ LoadStateAction

SpecState == Init /\ [][NextState]_vars

-----------------------------------------------------------------------------
(* Properties.                                                             *)

Running == panic = NoPanic

\* C1: in every state the host can observe, the BUSYSTS bit of the status
\* register is set exactly when command_state is WaitForExecute, also right
\* after an acknowledge moves the command from WaitForIRQClear on.
C1_BusyIffWaitForExecute ==
  Running =>
    (Bit(status, StatusBit.BUSYSTS)
       <=> command_state = CommandState.WaitForExecute)

\* C2: in every state the host can observe, the DRQSTS bit of the status
\* register is set exactly when the data FIFO holds bytes: after a BFRD load,
\* a clear, a CPU read of the data register and a DMA read.
C2_DrqIffDataFifoNonEmpty ==
  Running => (Bit(status, StatusBit.DRQSTS) <=> data_fifo # <<>>)

\* C3: the level last signalled on the DMA request line is the DRQSTS bit of
\* the status register.
C3_DmaRequestIsDrq ==
  Running => (dma_request <=> Bit(status, StatusBit.DRQSTS))

\* C3 witness: the request line is raised and the guest has then rewritten the
\* index bits of the status register.
C3_Witness ==
  /\ Running
  /\ dma_request
  /\ status % 4 = 1
  /\ data_fifo # <<>>

\* C4: at most one of reading, seeking and playing_cdda is set, and the
\* assertion of BeginSeeking (the drive neither reads nor plays) never fails.
C4_OneDriveActivity ==
  /\ panic # "Assert BeginSeeking"
  /\ Cardinality({b \in {SecondaryBit.reading, SecondaryBit.seeking,
                         SecondaryBit.playing_cdda} :
                    Bit(secondary_status, b)}) <= 1

\* C5: the motor is on only while a disc is inserted.
C5_MotorOnImpliesMedia ==
  Running => (Bit(secondary_status, SecondaryBit.motor_on) => has_media)

\* C6: DeliverAsyncInterrupt is only entered with a pending async code and an
\* all-zero interrupt flag register: its assertion never fails.
C6_DeliverOnlyWhenFlagClear == panic # "Assert DeliverAsyncInterrupt"

\* C6 witness: an acknowledge has just delivered a held sector interrupt.
C6_Witness ==
  /\ Running
  /\ latched = <<Interrupt.INT1>>
  /\ async_requested = <<>>
  /\ interrupt_flag_register = Interrupt.INT1
  /\ pending_async_interrupt = 0


\* a write that acknowledges interrupt flags
AckStep == WriteRegisterAction([NoGuest EXCEPT !.acks = {7}])

\* C7: an async interrupt held in pending_async_interrupt stays held, with its
\* staged response, until it is latched; once the host has acknowledged, the
\* next code latched into the flag register is the held code and the response
\* FIFO then holds its staged response.
C7_HeldAsyncDeliveredNext ==
  [][(pending_async_interrupt # 0 /\ panic' = NoPanic) =>
       /\ latched' = <<>> =>
            /\ pending_async_interrupt' = pending_async_interrupt
            /\ async_response_fifo' = async_response_fifo
       /\ (latched' # <<>> /\ (interrupt_flag_register = 0 \/ AckStep)) =>
            /\ latched'[1] = pending_async_interrupt
            /\ Len(latched') = 1 => response_fifo' = async_response_fifo]_vars

\* C8: SetAsyncInterrupt is only entered with pending_async_interrupt = 0: its
\* assertion never fails, also when a seek completes while a sector interrupt
\* is still held.
C8_SetAsyncOnlyWhenNonePending == panic # "Assert SetAsyncInterrupt"

C10_RemoveMediaCancelsDrive ==
  ~has_media =>
    /\ async_requested = <<>>
    /\ sector_reads = 0
    /\ panic # "null m_media"

\* the opcodes whose handler never calls StopReading
NonStoppingCommands ==
  {Command.Getstat, Command.Test, Command.GetID, Command.Setfilter,
   Command.Setmode, Command.Setloc, Command.Play, Command.Mute, Command.Demute,
   Command.GetlocL, Command.GetlocP, Command.GetTN, Command.GetTD}

\* C11: while the drive is seeking or reading, executing a command whose
\* handler does not call StopReading leaves the bits reading and seeking of the
\* secondary status as they were.
C11_OnlyStopReadingAborts ==
  (/\ Running
   /\ command_state = CommandState.WaitForExecute
   /\ command \in NonStoppingCommands
   /\ \/ Bit(secondary_status, SecondaryBit.reading)
      \/ Bit(secondary_status, SecondaryBit.seeking)) =>
    \A e \in Environments(Cur) :
      LET n == ExecuteCommand(Enter, e)
      IN n.panic = NoPanic =>
           /\ Bit(n.secondary_status, SecondaryBit.reading)
                <=> Bit(secondary_status, SecondaryBit.reading)
           /\ Bit(n.secondary_status, SecondaryBit.seeking)
                <=> Bit(secondary_status, SecondaryBit.seeking)

\* C12: every sector pushed to the mixer is announced by one
\* EnsureCDAudioSpace(n) and followed by exactly n AddCDAudioSample calls; no
\* sample is added without such an announcement.
C12_EnsureThenExactlyNSamples ==
  Running =>
    /\ Len(spu_ensure) <= 1
    /\ spu_ensure = <<>> => spu_samples = 0
    /\ spu_ensure # <<>> => spu_samples = spu_ensure[1]

\* C13: GetID on an empty drive.  While the opcode waits for its 4,000 ticks
\* nothing else has filled the response FIFO, and the Execute call that brings
\* the countdown to zero leaves the response FIFO at exactly [0x11, 0x80], the
\* flag register at INT5, the command Idle at stage 0 and the parameter FIFO
\* empty: no second stage is scheduled.
C13_GetIDWithoutMedia ==
  (/\ Running
   /\ command_state = CommandState.WaitForExecute
   /\ command = Command.GetID
   /\ command_stage = 0
   /\ ~has_media) =>
    /\ command_remaining_ticks \in 1..4000
    /\ \A e \in Environments(Cur) :
         LET n == Execute(Enter, command_remaining_ticks, e)
         IN n.panic = NoPanic =>
              /\ n.response_fifo = <<17, 128>>
              /\ n.interrupt_flag_register = Interrupt.INT5
              /\ n.command_state = CommandState.Idle
              /\ n.command_stage = 0
              /\ n.param_fifo = <<>>

\* C14: GetID on a loaded drive.  Stage 0 runs when the 4,000 ticks of the
\* opcode write are used up: it latches ACK, answers the secondary status and
\* waits in WaitForIRQClear with 18,000 ticks staged; no Execute call moves it
\* on or uses up those ticks; the acknowledge that clears the flag register
\* resumes it with the 18,000 ticks whole; the Execute call that uses them up
\* leaves the response FIFO at exactly [0x02,0x00,0x20,0x00,'S','C','E','A'],
\* the flag register at INT2 and the command Idle.
C14_GetIDWithMedia ==
  (Running /\ command = Command.GetID /\ has_media) =>
    /\ (command_state = CommandState.WaitForExecute /\ command_stage = 0) =>
         /\ command_remaining_ticks \in 1..4000
         /\ \A e \in Environments(Cur) :
              LET n == Execute_Command(Enter, command_remaining_ticks, e)
              IN /\ n.latched = <<Interrupt.ACK>>
                 /\ n.response_fifo = response_fifo \o <<secondary_status>>
                 /\ n.command_state = CommandState.WaitForIRQClear
                 /\ n.command_stage = 1
                 /\ n.command_remaining_ticks = 18000
    /\ command_state = CommandState.WaitForIRQClear =>
         /\ command_stage = 1
         /\ command_remaining_ticks = 18000
         /\ interrupt_flag_register # 0
         /\ \A e \in Environments(Cur), ticks \in TickChoices(Cur) :
              LET n == Execute(Enter, ticks, e)
              IN n.panic = NoPanic =>
                   /\ n.command_state = CommandState.WaitForIRQClear
                   /\ n.command_remaining_ticks = 18000
         /\ status % 4 = 1 =>
              \A e \in Environments(Cur) :
                LET n == WriteRegister(Enter, 3, 7, e)
                IN n.panic = NoPanic =>
                     /\ n.command_state = CommandState.WaitForExecute
                     /\ n.command_stage = 1
                     /\ n.command_remaining_ticks = 18000
    /\ (command_state = CommandState.WaitForExecute /\ command_stage = 1) =>
         /\ command_remaining_ticks \in 1..18000
         /\ \A e \in Environments(Cur) :
              LET n == Execute(Enter, command_remaining_ticks, e)
              IN n.panic = NoPanic =>
                   /\ n.response_fifo = <<2, 0, 32, 0, 83, 67, 69, 65>>
                   /\ n.interrupt_flag_register = Interrupt.INT2
                   /\ n.command_state = CommandState.Idle

\* C15: SeekL with a disc.  The Execute call that runs the command latches ACK
\* with seeking set in the answered status and leaves the whole seek time,
\* 20000 + |target_lba - current_lba| * 100 ticks, on the countdown: the ticks
\* given to that call elapsed before the seek began.  From then on an Execute
\* call that leaves ticks on the countdown only takes its ticks off, and the
\* one that uses them up clears seeking and queues INT2 with the status.
C15_SeekTakesFullSeekTime ==
  (Running /\ has_media) =>
    /\ (command_state = CommandState.WaitForExecute
        /\ command = Command.SeekL) =>
         \A e \in Environments(Cur) :
           LET n == Execute(Enter, command_remaining_ticks, e)
           IN n.panic = NoPanic =>
                /\ n.latched = <<Interrupt.ACK>>
                /\ Bit(n.secondary_status, SecondaryBit.seeking)
                /\ n.response_fifo[Len(n.response_fifo)] = n.secondary_status
                /\ n.read_or_seek_remaining_ticks =
                     GetTicksForSeek(Cur)
    /\ (Bit(secondary_status, SecondaryBit.seeking)
        /\ MediaCanSeek(ToLBA(seek_position))) =>
         \A e \in Environments(Cur), ticks \in TickChoices(Cur) :
           LET n == Execute_Drive(Enter, ticks, e)
           IN n.panic = NoPanic =>
                IF ticks < read_or_seek_remaining_ticks
                THEN /\ Bit(n.secondary_status, SecondaryBit.seeking)
                     /\ n.read_or_seek_remaining_ticks =
                          read_or_seek_remaining_ticks - ticks
                     /\ n.async_requested = <<>>
                ELSE /\ ~Bit(n.secondary_status, SecondaryBit.seeking)
                     /\ n.async_requested = <<Interrupt.INT2>>
                     /\ n.media_lba = ToLBA(seek_position)

\* C16: ReadN in data mode (mode = 0x00) at a Setloc position away from the
\* head.  ReadN starts a seek with read_after_seek; the Execute call that ends
\* the seek reads no sector, queues INT2, sets reading and puts exactly
\* MASTER_CLOCK / 75 ticks on the countdown; the Execute call that uses those
\* up reads one sector and queues INT1 with the status byte; a request-register
\* write with BFRD then pushes exactly the 2048 bytes from offset 24 of that
\* sector onto the data FIFO and empties the sector buffer.
C16_ReadNDeliversDataSector ==
  (Running /\ has_media /\ mode = 0) =>
    /\ (/\ command_state = CommandState.WaitForExecute
        /\ command = Command.ReadN
        /\ setloc_pending
        /\ FromLBA(media_lba) # setloc_position) =>
         \A e \in Environments(Cur) :
           LET n == Execute_Command(Enter, command_remaining_ticks, e)
           IN /\ Bit(n.secondary_status, SecondaryBit.seeking)
              /\ ~Bit(n.secondary_status, SecondaryBit.reading)
              /\ n.read_after_seek
              /\ n.seek_position = setloc_position
    /\ (/\ Bit(secondary_status, SecondaryBit.seeking)
        /\ read_after_seek
        /\ MediaCanSeek(ToLBA(seek_position))) =>
         \A e \in Environments(Cur) :
           LET n == Execute_Drive(Enter, read_or_seek_remaining_ticks, e)
           IN n.panic = NoPanic =>
                /\ ~Bit(n.secondary_status, SecondaryBit.seeking)
                /\ Bit(n.secondary_status, SecondaryBit.reading)
                /\ n.async_requested = <<Interrupt.INT2>>
                /\ n.sector_reads = 0
                /\ n.media_lba = ToLBA(seek_position)
                /\ n.read_or_seek_remaining_ticks = MASTER_CLOCK \div 75
    /\ (/\ Bit(secondary_status, SecondaryBit.reading)
        /\ media_lba < DiscLBACount) =>
         \A e \in Environments(Cur), ticks \in TickChoices(Cur) :
           LET n == Execute_Drive(Enter, ticks, e)
           IN IF ticks < read_or_seek_remaining_ticks
              THEN /\ n.sector_reads = 0
                   /\ n.async_requested = <<>>
                   /\ n.read_or_seek_remaining_ticks =
                        read_or_seek_remaining_ticks - ticks
              ELSE /\ n.sector_reads = 1
                   /\ n.sector_buffer = <<DiscSector(media_lba)>>
                   /\ n.async_requested = <<Interrupt.INT1>>
                   /\ IF n.latched = <<>>
                      THEN /\ n.pending_async_interrupt = Interrupt.INT1
                           /\ n.async_response_fifo = <<n.secondary_status>>
                      ELSE /\ n.latched = <<Interrupt.INT1>>
                           /\ n.interrupt_flag_register = Interrupt.INT1
                           /\ n.response_fifo = <<n.secondary_status>>
    /\ (sector_buffer # <<>> /\ status % 4 = 0) =>
         \A e \in Environments(Cur) :
           LET n == WriteRegister(Enter, 3, 128, e)
           IN n.panic = NoPanic =>
                /\ n.sector_buffer = <<>>
                /\ n.data_fifo =
                     data_fifo \o <<[lba |-> sector_buffer[1].lba,
                                     from |-> 24, len |-> 2048]>>
                /\ DataFifoSize(n.data_fifo) = DataFifoSize(data_fifo) + 2048

\* C16 witness: with a loaded sector in the data FIFO, the seek a ReadN
\* started has just ended: INT2 is queued, the drive is reading and the first
\* sector is due in MASTER_CLOCK / 75 ticks.
C16_Witness ==
  /\ Running
  /\ mode = 0
  /\ data_fifo = <<[lba |-> 0, from |-> 24, len |-> 2048]>>
  /\ async_requested = <<Interrupt.INT2>>
  /\ Bit(secondary_status, SecondaryBit.reading)
  /\ sector_reads = 0
  /\ read_or_seek_remaining_ticks = MASTER_CLOCK \div 75

\* the sector the next read returns is a mode-2 sector with realtime and audio
\* set in its subheader
NextSectorIsXAAudio ==
  /\ has_media
  /\ media_lba < DiscLBACount
  /\ DiscSector(media_lba).header.sector_mode = 2
  /\ Bit(DiscSector(media_lba).subheader.submode, SubmodeBit.realtime)
  /\ Bit(DiscSector(media_lba).subheader.submode, SubmodeBit.audio)

\* the filter is on and the file or channel of the next sector is not the one
\* Setfilter named
NextSectorIsFilteredOut ==
  /\ Bit(mode, ModeBit.xa_filter)
  /\ \/ DiscSector(media_lba).subheader.file_number # filter_file_number
     \/ DiscSector(media_lba).subheader.channel_number # filter_channel_number

\* C17: with xa_enable set, the read of a real-time audio sector latches and
\* queues no interrupt and leaves the sector buffer empty; when the filter
\* rejects the sector, no mixer call is made either, and the decoder history
\* and the resampler are left as they were.
C17_XAAudioNotPassedToCPU ==
  (/\ Running
   /\ Bit(secondary_status, SecondaryBit.reading)
   /\ Bit(mode, ModeBit.xa_enable)
   /\ NextSectorIsXAAudio) =>
    \A e \in Environments(Cur) :
      LET n == Execute_Drive(Enter, read_or_seek_remaining_ticks, e)
      IN n.panic = NoPanic =>
           /\ n.sector_reads = 1
           /\ n.latched = <<>>
           /\ n.async_requested = <<>>
           /\ n.pending_async_interrupt = 0
           /\ n.interrupt_flag_register = interrupt_flag_register
           /\ n.response_fifo = response_fifo
           /\ n.sector_buffer = <<>>
           /\ NextSectorIsFilteredOut =>
                /\ n.spu_ensure = <<>>
                /\ n.spu_samples = 0
                /\ n.xa_last_samples = xa_last_samples
                /\ n.xa_resample_p = xa_resample_p
                /\ n.xa_resample_sixstep = xa_resample_sixstep

\* C17 witness: with xa_enable and xa_filter set and a filter that names
\* another file, the audio sector has just been read and dropped.
C17_Witness ==
  /\ Running
  /\ mode = 72
  /\ filter_file_number # 1
  /\ sector_reads = 1
  /\ media_lba = 2
  /\ last_sector_subheader = DiscSector(1).subheader
  /\ sector_buffer = <<>>
  /\ xa_last_samples = <<>>
  /\ latched = <<>>

\* the (offset, index) pairs of the four staged-volume registers
StagedVolumeRegisters == {<<2, 2>>, <<3, 2>>, <<1, 3>>, <<2, 3>>}

\* the bytes the register writes of C18 are tried with
VolumeBytes == {0, 1, 32, 33, 64, 255}

\* C18: in every reachable state and for a write of any of VolumeBytes to any
\* offset: only the write to (offset 3, index 3) with bit 5 set changes the
\* in-force matrix, and it makes it the staged matrix, which it leaves alone;
\* a write to a staged-volume register stores the byte in the staged matrix
\* and changes nothing else.
C18_VolumeAppliedOnlyOnCommit ==
  Running =>
    \A offset \in 0..3, value \in VolumeBytes, e \in Environments(Cur) :
      LET n == WriteRegister(Enter, offset, value, e)
          index == status % 4
      IN /\ IF offset = 3 /\ index = 3 /\ Bit(value, 5)
            THEN /\ n.cd_audio_volume_matrix = next_cd_audio_volume_matrix
                 /\ n.next_cd_audio_volume_matrix = next_cd_audio_volume_matrix
            ELSE n.cd_audio_volume_matrix = cd_audio_volume_matrix
         /\ <<offset, index>> \in StagedVolumeRegisters =>
              /\ n = [Enter EXCEPT !.next_cd_audio_volume_matrix =
                                      n.next_cd_audio_volume_matrix]
              /\ \E i, j \in 1..2 :
                   n.next_cd_audio_volume_matrix =
                     [next_cd_audio_volume_matrix EXCEPT ![i][j] = value]

\* C18 witness: a staged byte has been committed, and another byte staged
\* since is not in force.
C18_Witness ==
  /\ Running
  /\ cd_audio_volume_matrix[1][1] = 64
  /\ next_cd_audio_volume_matrix[1][1] = 0
  /\ cd_audio_volume_matrix # next_cd_audio_volume_matrix

\* a byte whose two nibbles are decimal digits
IsBCD(b) == (b \div 16) <= 9 /\ (b % 16) <= 9

\* C19: Setloc with three BCD parameters latches the minute, second and frame
\* they spell in decimal and sets setloc_pending, and the BCD encoding of the
\* latched position is the three parameter bytes again.  Encoding a decoded
\* byte gives the byte back for every BCD byte.
C19_SetlocBCDRoundTrip ==
  /\ \A b \in 0..255 :
       IsBCD(b) =>
         /\ BCDToDecimal(b) \in 0..99
         /\ BCDToDecimal(b) \div 10 = b \div 16
         /\ BCDToDecimal(b) % 10 = b % 16
         /\ DecimalToBCD(BCDToDecimal(b)) = b
  /\ (/\ Running
      /\ command_state = CommandState.WaitForExecute
      /\ command = Command.Setloc
      /\ Len(param_fifo) = SetlocParams
      /\ \A i \in 1..SetlocParams : IsBCD(param_fifo[i])) =>
       \A e \in Environments(Cur) :
         LET n == Execute_Command(Enter, command_remaining_ticks, e)
             pos == n.setloc_position
         IN /\ n.setloc_pending
            /\ pos.minute = 10 * (param_fifo[1] \div 16) + (param_fifo[1] % 16)
            /\ pos.second = 10 * (param_fifo[2] \div 16) + (param_fifo[2] % 16)
            /\ pos.frame = 10 * (param_fifo[3] \div 16) + (param_fifo[3] % 16)
            /\ <<DecimalToBCD(pos.minute), DecimalToBCD(pos.second),
                 DecimalToBCD(pos.frame)>> = param_fifo

\* C19 witness: Setloc has latched 16:59:74 from the bytes 0x16, 0x59, 0x74.
C19_Witness ==
  /\ Running
  /\ setloc_pending
  /\ setloc_position = [minute |-> 16, second |-> 59, frame |-> 74]
  /\ latched = <<Interrupt.ACK>>
  /\ param_fifo = <<>>


\* a controller that is idle, its drive stopped, with a disc
IdleWithMedia ==
  Running /\ command_state = CommandState.Idle /\ ~IsActive(Cur) /\ has_media

\* the controller after a save state of s is written and read back at once
SaveThenRestore(s, opened) ==
  DoStateRead(DoStateWrite(s), DoStateImage(s), opened)

\* whether the image is found again and holds the saved position
MediaComesBack(opened) == opened /\ MediaCanSeek(media_lba)

\* C20 as stated: on an idle controller with a disc, reading back a save
\* state gives the serialized fields, the media file and the media LBA that
\* were saved, and saving and restoring once more gives the same state,
\* whatever becomes of the image file.
C20_SaveRestoreAlwaysIdentical ==
  IdleWithMedia =>
    \A opened \in BOOLEAN :
      /\ DoStateImage(SaveThenRestore(Enter, opened)) = DoStateImage(Cur)
      /\ \A again \in BOOLEAN :
           DoStateImage(SaveThenRestore(SaveThenRestore(Enter, opened), again))
             = DoStateImage(Cur)

\* C20, amended: on an idle controller with a disc, reading back a save state
\* gives the serialized fields that were saved; it gives the saved media file
\* and media LBA when the image opens again and the saved LBA is a position
\* of the disc, and a controller without media otherwise.  Saving and
\* restoring once more, the image opening again, gives the same state.
C20_SaveRestoreIdentical ==
  IdleWithMedia =>
    \A opened \in BOOLEAN :
      /\ DoStateImage(SaveThenRestore(Enter, opened)).fields
           = DoStateImage(Cur).fields
      /\ MediaComesBack(opened) =>
           /\ DoStateImage(SaveThenRestore(Enter, opened)) = DoStateImage(Cur)
           /\ SaveThenRestore(Enter, opened).has_media
           /\ SaveThenRestore(Enter, opened).media_lba = media_lba
      /\ ~MediaComesBack(opened) =>
           /\ ~SaveThenRestore(Enter, opened).has_media
           /\ DoStateImage(SaveThenRestore(Enter, opened)).media_filename = ""
      /\ DoStateImage(SaveThenRestore(SaveThenRestore(Enter, opened), TRUE))
           = DoStateImage(SaveThenRestore(Enter, opened))

\* a save state taken after a sector was read is read back and the
\* controller is as saved, the disc at the saved position
C20_Witness ==
  /\ IdleWithMedia
  /\ saved_state # <<>>
  /\ saved_state[1] = DoStateImage(Cur)
  /\ media_lba = 1
  /\ last_sector_header = DiscSector(0).header
  /\ latched = <<>>


\* C21: MASTER_CLOCK / 150 is exactly half of MASTER_CLOCK / 75, nothing is
\* lost to rounding.  The Execute call that runs Setmode stores the parameter
\* byte as the mode and leaves the running sector countdown alone; the next
\* sector the drive schedules, at the end of a sector read or when ReadN
\* starts reading, gets MASTER_CLOCK / 75 ticks with double_speed clear and
\* half of that with double_speed set.
C21_DoubleSpeedHalvesSectorTicks ==
  /\ MASTER_CLOCK % 150 = 0
  /\ (MASTER_CLOCK \div 150) * 2 = MASTER_CLOCK \div 75
  /\ Running =>
       /\ (/\ command_state = CommandState.WaitForExecute
           /\ command = Command.Setmode
           /\ param_fifo # <<>>) =>
            \A e \in Environments(Cur) :
              LET n == Execute_Command(Enter, command_remaining_ticks, e)
              IN /\ n.mode = param_fifo[1]
                 /\ n.read_or_seek_remaining_ticks = read_or_seek_remaining_ticks
                 /\ GetTicksForRead(n) =
                      IF Bit(param_fifo[1], ModeBit.double_speed)
                      THEN (MASTER_CLOCK \div 75) \div 2
                      ELSE MASTER_CLOCK \div 75
       /\ (/\ command_state = CommandState.WaitForExecute
           /\ command = Command.ReadN
           /\ has_media
           /\ ~(setloc_pending /\ FromLBA(media_lba) # setloc_position)) =>
            \A e \in Environments(Cur) :
              LET n == Execute_Command(Enter, command_remaining_ticks, e)
              IN /\ Bit(n.secondary_status, SecondaryBit.reading)
                 /\ n.read_or_seek_remaining_ticks =
                      IF Bit(mode, ModeBit.double_speed)
                      THEN (MASTER_CLOCK \div 75) \div 2
                      ELSE MASTER_CLOCK \div 75
       /\ (Bit(secondary_status, SecondaryBit.reading) /\ has_media) =>
            \A e \in Environments(Cur), ticks \in TickChoices(Cur) :
              LET n == Execute_Drive(Enter, ticks, e)
              IN IF ticks < read_or_seek_remaining_ticks
                 THEN /\ n.sector_reads = 0
                      /\ n.read_or_seek_remaining_ticks =
                           read_or_seek_remaining_ticks - ticks
                 ELSE /\ n.sector_reads = 1
                      /\ n.read_or_seek_remaining_ticks =
                           (read_or_seek_remaining_ticks - ticks)
                           + (IF Bit(mode, ModeBit.double_speed)
                              THEN (MASTER_CLOCK \div 75) \div 2
                              ELSE MASTER_CLOCK \div 75)

\* C21 witness: with double_speed set, the second sector of the disc has just
\* been read and the third is due in MASTER_CLOCK / 150 ticks.
C21_Witness ==
  /\ Running
  /\ mode = 128
  /\ Bit(secondary_status, SecondaryBit.reading)
  /\ sector_reads = 1
  /\ media_lba = 2
  /\ read_or_seek_remaining_ticks = 225792


\* C22: in every state the host can observe, PRMEMPTY is set exactly when the
\* parameter FIFO is empty, PRMWRDY exactly when it is not full and RSLRRDY
\* exactly when the response FIFO is not empty.
C22_FifoFlagsReflectFifos ==
  Running =>
    /\ Bit(status, StatusBit.PRMEMPTY) <=> (param_fifo = <<>>)
    /\ Bit(status, StatusBit.PRMWRDY) <=> (Len(param_fifo) < PARAM_FIFO_SIZE)
    /\ Bit(status, StatusBit.RSLRRDY) <=> (response_fifo # <<>>)


\* bytes written to a register to see what the write does
ProbeBytes == {0, 255}

\* interrupt-flag values with bit 0x40 set
ClearingFlagWrites == {64, 71, 95}

\* C23: the parameter FIFO never holds more than 16 bytes.  A parameter write
\* (offset 2, index 0) appends the byte, after dropping the oldest byte when
\* 16 are held, so the FIFO holds the most recent bytes in write order.  The
\* Execute call that ends a command and an interrupt-flag write (offset 3,
\* index 1) with bit 0x40 set leave it empty.
C23_ParamFifoKeepsNewest16 ==
  Running =>
    /\ Len(param_fifo) <= PARAM_FIFO_SIZE
    /\ status % 4 = 0 =>
         \A value \in ProbeBytes, e \in Environments(Cur) :
           LET n == WriteRegister(Enter, 2, value, e)
           IN /\ n.panic = NoPanic
              /\ Len(n.param_fifo) = Min(Len(param_fifo) + 1, PARAM_FIFO_SIZE)
              /\ n.param_fifo =
                   IF Len(param_fifo) = PARAM_FIFO_SIZE
                   THEN SubSeq(param_fifo, 2, PARAM_FIFO_SIZE) \o <<value>>
                   ELSE param_fifo \o <<value>>
    /\ status % 4 = 1 =>
         \A value \in ClearingFlagWrites, e \in Environments(Cur) :
           LET n == WriteRegister(Enter, 3, value, e)
           IN n.panic = NoPanic /\ n.param_fifo = <<>>
    /\ command_state = CommandState.WaitForExecute =>
         \A e \in Environments(Cur) :
           LET n == Execute(Enter, command_remaining_ticks, e)
           IN n.panic = NoPanic /\ n.command_state = CommandState.Idle
              /\ n.param_fifo = <<>>

\* C23 witness: the bytes 1 to 16, then 17 and 17 again were written: the
\* FIFO holds the last 16 of the 18 in write order.
C23_Witness ==
  /\ Running
  /\ param_fifo = <<3, 4, 5, 6, 7, 8, 9, 10, 11, 12, 13, 14, 15, 16, 17, 17>>


\* interrupt-flag values the host acknowledges with
AckBytes == {0, 1, 7, 31}

\* C24: InterruptRequest is called exactly when interrupt_flag_register goes
\* from zero to non-zero.  An Execute call signals one request when it finds
\* the flag register zero and leaves it non-zero, and none otherwise; an
\* interrupt-flag write signals one request when it clears the register and a
\* held async interrupt is latched, and none otherwise.
C24_IrqOnZeroToNonZeroOnly ==
  Running =>
    /\ \A ticks \in TickChoices(Cur), e \in Environments(Cur) :
         LET n == Execute(Enter, ticks, e)
         IN n.panic = NoPanic =>
              n.irq_requests =
                IF interrupt_flag_register = 0 /\ n.interrupt_flag_register # 0
                THEN 1 ELSE 0
    /\ status % 4 = 1 =>
         \A value \in AckBytes :
           LET n == WriteRegister(Enter, 3, value,
                                  [pending |-> 0, stale |-> 0, ub |-> "crash"])
           IN n.panic = NoPanic =>
                n.irq_requests =
                  IF /\ BitClear(interrupt_flag_register, value) = 0
                     /\ n.interrupt_flag_register # 0
                  THEN 1 ELSE 0


\* the commands that answer INT5 without a disc
MediaCommands ==
  {Command.SeekL, Command.SeekP, Command.ReadN, Command.ReadS, Command.Play,
   Command.GetTN, Command.GetTD}

\* C25: the command half of the Execute call that runs SeekL, SeekP, ReadN,
\* ReadS, Play, GetTN or GetTD on an empty drive leaves the response FIFO as
\* [secondary_status | 0x01, 0x80], the flag register INT5, the controller Idle
\* and secondary_status, seek_position, setloc_position and setloc_pending as
\* they were; GetTD with a disc and a track number above the track count
\* leaves INT5 with [secondary_status | 0x01, 0x10].
C25_MediaErrorsAreSynchronous ==
  (Running /\ command_state = CommandState.WaitForExecute) =>
    /\ (command \in MediaCommands /\ ~has_media) =>
         \A e \in Environments(Cur) :
           LET n == Execute_Command(Enter, command_remaining_ticks, e)
           IN /\ n.panic = NoPanic
              /\ n.response_fifo = <<BitOr(secondary_status, 1), 128>>
              /\ n.interrupt_flag_register = Interrupt.INT5
              /\ n.latched = <<Interrupt.INT5>>
              /\ n.command_state = CommandState.Idle
              /\ n.secondary_status = secondary_status
              /\ n.seek_position = seek_position
              /\ n.setloc_position = setloc_position
              /\ n.setloc_pending = setloc_pending
    /\ (/\ command = Command.GetTD
        /\ has_media
        /\ param_fifo # <<>>
        /\ BCDToDecimal(param_fifo[1]) > DiscTrackCount) =>
         \A e \in Environments(Cur) :
           LET n == Execute_Command(Enter, command_remaining_ticks, e)
           IN /\ n.panic = NoPanic
              /\ n.response_fifo = <<BitOr(secondary_status, 1), 16>>
              /\ n.interrupt_flag_register = Interrupt.INT5
              /\ n.command_state = CommandState.Idle


\* byte i (from 0) of a buffer or FIFO given as runs: the sector and the offset
\* in the sector it comes from, or the kind of fill byte it is
RECURSIVE ByteAt(_, _)
ByteAt(f, i) ==
  IF i < Head(f).len
  THEN [lba |-> Head(f).lba, at |-> IF Head(f).lba < 0 THEN 0 ELSE Head(f).from + i]
  ELSE ByteAt(Tail(f), i - Head(f).len)

\* word counts DMARead is tried with
DmaProbeWords == {1, 2, 511, 512, 513}

\* bytes looked at on each side of a boundary of a buffer
ProbeMargin == 8

\* the positions below count that lie at its start, at its end or next to the
\* boundary edge
ProbePositions(count, edge) ==
  {i \in (0..(ProbeMargin - 1))
          \cup ((edge - ProbeMargin)..(edge + ProbeMargin - 1))
          \cup ((count - ProbeMargin)..(count - 1)) : 0 <= i /\ i < count}

C27_DataFifoWithinCapacity ==
  /\ DataFifoSize(data_fifo) <= DATA_FIFO_SIZE
  /\ panic # "Assert FIFOQueue::PushRange"


\* C28: a command that was accepted makes progress at every step, so it is
\* back in Idle after its last stage.  The Execute call that runs the handler
\* of a stage (Test with its sub-function in the parameter FIFO) either ends
\* the command, Idle with the parameter FIFO empty, or moves to the next
\* stage and waits for the acknowledge; it never leaves the same stage to be
\* executed again.  The acknowledge of a waiting command puts it back in
\* WaitForExecute.
C28_EveryCommandReturnsToIdle ==
  Running =>
    /\ (/\ command_state = CommandState.WaitForExecute
        /\ command = Command.Test => param_fifo # <<>>) =>
         \A e \in Environments(Cur) :
           LET n == Execute_Command(Enter, command_remaining_ticks, e)
           IN /\ n.panic = NoPanic
              /\ \/ /\ n.command_state = CommandState.Idle
                    /\ n.param_fifo = <<>>
                 \/ /\ n.command_state = CommandState.WaitForIRQClear
                    /\ n.command_stage = command_stage + 1
    /\ (command_state = CommandState.WaitForIRQClear /\ status % 4 = 1) =>
         \A e \in Environments(Cur) :
           LET n == WriteRegister(Enter, 3, INTERRUPT_REGISTER_MASK, e)
           IN n.panic = NoPanic =>
                n.command_state # CommandState.WaitForIRQClear


\* the bytes staged with an async interrupt: the status byte for INT1 and INT2,
\* status | 0x01 and the reason 0x80 for INT5
IsStagedResponse(code, f, stat) ==
  IF code = Interrupt.INT5 THEN f = <<BitOr(stat, 1), 128>>
  ELSE code \in {Interrupt.INT1, Interrupt.INT2} /\ f = <<stat>>

\* C29: when an async interrupt is delivered the response FIFO holds exactly
\* the bytes staged for it and nothing of an earlier response, the async
\* response FIFO is empty, pending_async_interrupt is 0 and the flag register
\* holds the delivered code.  This is so when the drive half of Execute
\* delivers at once, the flag register being zero, and when the acknowledge
\* that clears the flag register delivers a held interrupt.
C29_DeliveredResponseIsStagedBytes ==
  Running =>
    /\ pending_async_interrupt # 0 =>
         /\ interrupt_flag_register # 0
         /\ Len(async_response_fifo) =
              (IF pending_async_interrupt = Interrupt.INT5 THEN 2 ELSE 1)
    /\ pending_async_interrupt = 0 => async_response_fifo = <<>>
    /\ \A ticks \in TickChoices(Cur), e \in Environments(Cur) :
         LET n == Execute_Drive(Enter, ticks, e)
         IN (n.panic = NoPanic /\ n.latched # <<>>) =>
              /\ interrupt_flag_register = 0
              /\ Len(n.latched) = 1
              /\ n.async_requested = n.latched
              /\ IsStagedResponse(n.latched[1], n.response_fifo,
                                  n.secondary_status)
              /\ n.async_response_fifo = <<>>
              /\ n.pending_async_interrupt = 0
              /\ n.interrupt_flag_register = n.latched[1]
    /\ (/\ pending_async_interrupt # 0
        /\ command_state # CommandState.WaitForIRQClear
        /\ status % 4 = 1) =>
         \A e \in Environments(Cur) :
           LET n == WriteRegister(Enter, 3, 7, e)
           IN /\ n.panic = NoPanic
              /\ n.latched = <<pending_async_interrupt>>
              /\ n.response_fifo = async_response_fifo
              /\ n.async_response_fifo = <<>>
              /\ n.pending_async_interrupt = 0
              /\ n.interrupt_flag_register = pending_async_interrupt

\* C29 witness: the acknowledge of a command has just delivered the held INT5
\* of a failed seek: the response FIFO holds status | 0x01 and 0x80.
C29_Witness ==
  /\ Running
  /\ latched = <<Interrupt.INT5>>
  /\ async_requested = <<>>
  /\ interrupt_flag_register = Interrupt.INT5
  /\ response_fifo = <<BitOr(secondary_status, 1), 128>>
  /\ async_response_fifo = <<>>
  /\ pending_async_interrupt = 0


\* the commands that consume a pending Setloc
SetlocConsumers ==
  {Command.SeekL, Command.SeekP, Command.ReadN, Command.ReadS, Command.Play}

\* C30: with a disc and setloc_pending set, the command half of the Execute
\* call that runs SeekL, SeekP, ReadN, ReadS or Play clears setloc_pending and
\* uses the Setloc target: it starts a seek with seek_position equal to the
\* setloc_position it found or, for ReadN, ReadS and Play with the image at
\* that position, starts reading or playing without a seek.  No command but
\* Setloc leaves setloc_pending set when it was clear.
C30_SetlocConsumedByFirstUse ==
  (Running /\ command_state = CommandState.WaitForExecute) =>
    \A e \in Environments(Cur) :
      LET n == Execute_Command(Enter, command_remaining_ticks, e)
      IN /\ (command \in SetlocConsumers /\ has_media /\ setloc_pending) =>
              /\ n.panic = NoPanic
              /\ ~n.setloc_pending
              /\ n.setloc_position = setloc_position
              /\ IF Bit(n.secondary_status, SecondaryBit.seeking)
                 THEN n.seek_position = setloc_position
                 ELSE /\ command \notin {Command.SeekL, Command.SeekP}
                      /\ FromLBA(media_lba) = setloc_position
                      /\ IsReadingOrPlaying(n)
         /\ (command # Command.Setloc /\ ~setloc_pending) =>
              (n.panic = NoPanic => ~n.setloc_pending)


\* the delay Pause stage 0 programs for stage 1: long when the drive was
\* reading or playing, at double speed twice as long, short otherwise
PauseDelay(was_busy, double_speed) ==
  IF was_busy THEN (IF double_speed THEN 2000000 ELSE 1000000) ELSE 7000

\* the Pause handler is about to run at the given stage
PauseDue(stage) ==
  /\ Running
  /\ command = Command.Pause
  /\ command_state = CommandState.WaitForExecute
  /\ command_stage = stage

\* what stage 0 and stage 1 of Pause do but for the delay: stage 0 raises ACK
\* with the status byte, stops the drive and waits for the acknowledge with
\* the countdown of stage 1 programmed; stage 1 raises INT2 with a status byte
\* that has reading, seeking and playing_cdda clear, and ends the command
PauseStages(delay) ==
  /\ PauseDue(0) =>
       \A e \in Environments(Cur) :
         LET n == Execute_Command(Enter, command_remaining_ticks, e)
         IN /\ n.panic = NoPanic
            /\ n.interrupt_flag_register = Interrupt.ACK
            /\ n.response_fifo # <<>>
            /\ n.response_fifo[Len(n.response_fifo)] = secondary_status
            /\ ~IsActive(n)
            /\ n.read_or_seek_remaining_ticks = 0
            /\ n.command_state = CommandState.WaitForIRQClear
            /\ n.command_stage = 1
            /\ n.command_remaining_ticks = delay
  /\ PauseDue(1) =>
       \A e \in Environments(Cur) :
         LET n == Execute_Command(Enter, command_remaining_ticks, e)
         IN /\ n.panic = NoPanic
            /\ n.interrupt_flag_register = Interrupt.INT2
            /\ n.response_fifo # <<>>
            /\ n.response_fifo[Len(n.response_fifo)] = n.secondary_status
            /\ ~IsActive(n)
            /\ n.command_state = CommandState.Idle

\* C31 as stated: stage 0 of Pause raises ACK, stops the drive and programs
\* stage 1, to run after the acknowledge, in 1,000,000 ticks (2,000,000 at
\* double speed) when the drive was seeking, reading or playing, in 7,000
\* ticks when it was stopped; stage 1 raises INT2 with a status byte that has
\* reading, seeking and playing_cdda clear.
C31_PauseDelayOfActiveDrive ==
  PauseStages(PauseDelay(IsActive(Cur), Bit(mode, ModeBit.double_speed)))

\* C31: as above, but the long delay is programmed only when the drive was
\* reading or playing; a drive that was only seeking is stopped and stage 1
\* is programmed in 7,000 ticks, as for a stopped drive.
C31_PauseDelayOfReadingDrive ==
  PauseStages(PauseDelay(IsReadingOrPlaying(Cur),
                         Bit(mode, ModeBit.double_speed)))

\* Pause stage 0 is about to run on a seeking drive
C31_Witness ==
  /\ PauseDue(0)
  /\ Bit(secondary_status, SecondaryBit.seeking)


\* C32: for every sample pair and every volume matrix, each channel given to
\* the SPU, by the CDDA path and by the XA path alike, is the sum of the two
\* volume-scaled inputs saturated to [-32768, 32767], left being
\* L*M[0][0] + R*M[0][1] and right L*M[1][0] + R*M[1][1]; the sum never wraps
\* around 16 bits.
C32_MixIsSaturatedMatrixSum ==
  audio_out # <<>> =>
    LET M == cd_audio_volume_matrix
        L == audio_in[1]
        R == audio_in[2]
    IN audio_out[2] =
         <<ClampS16(ApplyVolume(L, M[1][1]) + ApplyVolume(R, M[1][2])),
           ClampS16(ApplyVolume(L, M[2][1]) + ApplyVolume(R, M[2][2]))>>


\* C33: an interrupt flag the host has not acknowledged is never overwritten.
\* While interrupt_flag_register is non-zero, no Execute call (a command
\* handler raising ACK, INT2 or INT5, a drive event) and no register write
\* other than the write to the interrupt flag register changes it.
C33_UnacknowledgedFlagIsKept ==
  (Running /\ interrupt_flag_register # 0) =>
    /\ \A ticks \in TickChoices(Cur), e \in Environments(Cur) :
         Execute(Enter, ticks, e).interrupt_flag_register
           = interrupt_flag_register
    /\ \A w \in GuestWrites(Cur, GuestInterrupt), e \in Environments(Cur) :
         ~(status % 4 = 1 /\ w[1] = 3) =>
           WriteRegister(Enter, w[1], w[2], e).interrupt_flag_register
             = interrupt_flag_register


\* the drive once the seek under way has completed with nothing in between
SeekCompleted(s) ==
  Execute_Drive([s EXCEPT !.latched = <<>>, !.irq_requests = 0,
                          !.async_requested = <<>>],
                s.read_or_seek_remaining_ticks,
                [pending |-> 0, stale |-> 0, ub |-> "crash"])

\* C34: a seek started by SeekL/SeekP never starts reading or playback.  When
\* the handler of SeekL or SeekP runs on a drive with a disc and the seek it
\* starts completes, reading, playing_cdda and seeking are all clear, whatever
\* was stopped by the command; and read_after_seek or play_after_seek is set
\* only while the drive is seeking.
C34_SeekNeverStartsReading ==
  Running =>
    /\ (read_after_seek \/ play_after_seek) =>
         Bit(secondary_status, SecondaryBit.seeking)
    /\ (/\ command_state = CommandState.WaitForExecute
        /\ command \in {Command.SeekL, Command.SeekP}
        /\ has_media) =>
         \A e \in Environments(Cur) :
           LET n == Execute_Command(Enter, command_remaining_ticks, e)
           IN /\ n.panic = NoPanic
              /\ Bit(n.secondary_status, SecondaryBit.seeking)
              /\ ~IsActive(SeekCompleted(n))


\* the seek of a ReadN/ReadS or Play is under way, with a disc on which the
\* seek target, and the target of a Setloc issued since, can be sought, and
\* with no async interrupt held back that the INT2 of the seek would run into
ReadIsSeeking ==
  /\ Running
  /\ pending_async_interrupt = 0
  /\ Bit(secondary_status, SecondaryBit.seeking)
  /\ read_after_seek \/ play_after_seek
  /\ has_media
  /\ MediaCanSeek(ToLBA(seek_position))
  /\ setloc_pending => MediaCanSeek(ToLBA(setloc_position))

\* C35: a ReadN/ReadS or Play that has to seek first goes on to read or play.
\* When its seek completes, the drive is reading (playing_cdda for Play) with
\* the sector countdown running, or, a Setloc having been issued during the
\* seek, it is seeking to the new target with read_after_seek
\* (play_after_seek) still set, so that the completion of that seek starts the
\* read.
C35_ReadAfterSeekStartsReading ==
  ReadIsSeeking =>
    LET n == SeekCompleted(Cur)
        started == IF play_after_seek THEN SecondaryBit.playing_cdda
                   ELSE SecondaryBit.reading
    IN /\ n.panic = NoPanic
       /\ \/ /\ Bit(n.secondary_status, started)
             /\ n.read_or_seek_remaining_ticks > 0
          \/ /\ setloc_pending
             /\ Bit(n.secondary_status, SecondaryBit.seeking)
             /\ n.seek_position = setloc_position
             /\ n.read_after_seek = read_after_seek
             /\ n.play_after_seek = play_after_seek


\* C36: whenever command_state is WaitForIRQClear the interrupt flag register
\* is non-zero, and the write that acknowledges all of it puts the command
\* back in WaitForExecute at the same stage (unless the Synchronize of that
\* write ends the program): a multi-stage command is never left waiting for
\* the acknowledge of a flag that is clear.
C36_WaitingCommandHasFlagSet ==
  (Running /\ command_state = CommandState.WaitForIRQClear) =>
    /\ interrupt_flag_register # 0
    /\ status % 4 = 1 =>
         \A e \in Environments(Cur) :
           LET n == WriteRegister(Enter, 3, INTERRUPT_REGISTER_MASK, e)
           IN n.panic = NoPanic =>
                /\ n.command_state = CommandState.WaitForExecute
                /\ n.command = command
                /\ n.command_stage = command_stage

\* the second stage of a command has been put back in WaitForExecute by the
\* acknowledge of its ACK
C36_Witness ==
  /\ Running
  /\ command_state = CommandState.WaitForExecute
  /\ command \in {Command.GetID, Command.Pause, Command.Init}
  /\ command_stage = 1
  /\ interrupt_flag_register = 0

====
